---- MODULE Spec2Model ----
(***************************************************************************)
(* State-machine model of the abyss sniffer core (sniffer-core/src):       *)
(*   - RingBuffer<T, Capacity> (ring_buffer.hpp) at the granularity of     *)
(*     its individual atomic loads and stores, with one producer thread    *)
(*     and one consumer thread (SpecRing);                                 *)
(*   - FlowTable (flow_table.hpp) driven by the Aggregator loop            *)
(*     (aggregator.cpp) against a steady clock (SpecAgg, LiveSpecAgg);     *)
(*   - the supervisor in main() with the capture and aggregator threads'   *)
(*     start/stop lifecycle (main.cpp, capture.cpp, aggregator.cpp)        *)
(*     (SpecMain, LiveSpecMain, SpecStop, LiveSpecStop);                   *)
(*   - CaptureEngine::parse_packet inside the capture loop (capture.cpp),  *)
(*     one action per decoding stage (SpecParse);                          *)
(*   - WSBroadcaster (ws_broadcaster.hpp) with its connection callbacks    *)
(*     (SpecWs);                                                           *)
(*   - FlowTable::top_flows on a table of TableSize entries (SpecTop).     *)
(***************************************************************************)
EXTENDS Integers, Sequences, FiniteSets, TLC

VARIABLES
  \* ---- RingBuffer (ring_buffer.hpp) ----
  head_, tail_, buffer_, drops_,
  ppc, p_head, p_tail, p_item,      \* producer: position in push and its locals
  cpc, c_tail, c_head, c_seen, c_raced, c_item, \* consumer: position in pop and its locals
  pstarted,                         \* history: number of push calls begun (= id of the item pushed)
  popped,                           \* history: items returned by pop, in return order
  phase,                            \* history: "push" (no pop begun yet), "pop" (pops only,
                                    \*   begun after every push had returned), "mixed"
  \* ---- FlowTable (flow_table.hpp) ----
  flows,                            \* flows_: FlowKey -> FlowState
  ft_call,                          \* history: the last FlowTable call and its argument
  ft_before,                        \* history: flows_ as that call found it
  observed,                         \* history: per entry, bytes and packets seen since its creation
  n_updates,                        \* history: number of update calls made
  since_reset,                      \* history: reset_window_counters ran and no update since
  \* ---- Aggregator (aggregator.cpp) and its environment ----
  clock,                            \* std::chrono::steady_clock, in microseconds
  traffic,                          \* the packet shapes the capture source delivers in this run
  ringq,                            \* the packets held by ring_, oldest first
  n_captured,                       \* history: packets the capture thread has pushed
  running_,                         \* Aggregator::running_
  apc,                              \* position of the aggregator thread in start()
  now, window_start, last_expire, fps_timer, drained,   \* locals of start() and drain_ring()
  window_arp_, window_dns_, window_udp_small_, window_rst_,
  window_icmp_unreach_, window_total_pkts_, window_total_bytes_,
  health_queue_fill_,               \* numerator of the fill ratio, used / Capacity
  frame,                            \* the TelemetryFrame build_frame returned in this tick
  win_drained,                      \* history: per packet shape, packets drained since the reset
  \* ---- main() and CaptureEngine (main.cpp, capture.cpp) ----
  g_shutdown,                       \* the flag the signal handler sets
  mpc,                              \* position of the main thread in main()
  exit_code,                        \* <<>> until main returns, then <<its return value>>
  agg_spawned,                      \* aggregator_thread has been constructed
  cap_pc,                           \* position of the capture thread in CaptureEngine::start()
  cap_running_,                     \* CaptureEngine::running_
  interface_,                       \* CaptureEngine::interface_ is not empty
  handle_,                          \* CaptureEngine::handle_: "null" or "open"
  break_loop,                       \* the flag pcap_breakloop sets in the pcap handle
  health_capture_drops_,            \* Aggregator::health_capture_drops_
  \* ---- callers of Aggregator::stop() other than main ----
  n_stops,                          \* history: number of stop() calls made so far
  \* ---- CaptureEngine::parse_packet and the loop around it (capture.cpp) ----
  link_type,                        \* pcap_datalink(handle_)
  caplen, wirelen,                  \* header->caplen, header->len of the packet being parsed
  ppos,                             \* position of the capture thread in the loop body
  ph,                               \* PacketHeader ph of parse_packet
  eth_offset, eth_type, vlan_layers, l4_offset, next_header, ext,  \* locals of parse_packet
  read_end,                         \* history: 1 + the highest offset of data read so far
  stopped_at,                       \* history: the stage at which decoding gave up, or "none"
  n_delivered,                      \* history: packets pcap_next_ex has delivered
  n_pushed,                         \* history: PacketHeaders pushed onto the ring
  \* ---- WSBroadcaster (ws_broadcaster.hpp) ----
  ws_pc,                            \* position of the main thread in start() / stop()
  ws_running_,                      \* WSBroadcaster::running_
  clients_,                         \* WSBroadcaster::clients_, in vector order
  frames_sent_,                     \* WSBroadcaster::frames_sent_
  conn,                             \* per connection, what the server has reported of it:
                                    \*   "none", "open" (Open and no Close/Error since), "over"
  ws_event,                         \* history: the last callback or call handled
  ws_sent,                          \* history: the messages that callback or call sent
  \* ---- FlowTable::top_flows on a table of many flows (flow_table.hpp) ----
  tf_bytes,                         \* bytes_window of each entry of flows_, in iteration order
  tf_call,                          \* the arguments of the last top_flows call, or NoTopCall
  tf_result,                        \* the vector that call returned, while the caller holds it
  \* ---- parse_args and the head of main() (main.cpp) ----
  argv,                             \* argv[1..argc-1], each a sequence of characters
  cli_i,                            \* i of the loop of parse_args
  args,                             \* CliArgs args
  cli_diag,                         \* history: the diagnostics written to std::cerr
  cli_pc,                           \* position of main: "parse", "main", "exited", "running"
  cli_exit,                         \* <<>> until main returns, then <<its return value>>
  \* ---- the ring used by one call at a time, beside a bounded FIFO queue ----
  fifo,                             \* the queue: the retained items, oldest first
  fifo_drops,                       \* the queue: items discarded on overflow
  ret,                              \* what the ring's last pop returned (Nullopt: nothing)
  fifo_ret,                         \* what the queue's last pop returned
  \* ---- WSBroadcaster's clients_mutex_ and the threads that take it ----
  clients_mutex_,                   \* "free", or the thread that holds it
  bc_pc,                            \* aggregator thread: position in broadcast
  hd_pc,                            \* connection thread of each client: position in handle_message
  sv_pc,                            \* main thread: position in its loop and in the shutdown
  \* ---- the health fields of Aggregator, written by main and read by build_frame ----
  uh_pc,                            \* main thread: position in update_health
  uh_arg,                           \* the arguments of the update_health call in progress
  uh_done,                          \* history: the arguments of the last call that returned
  uh_calls,                         \* history: number of update_health calls begun
  hb_pc,                            \* aggregator thread: position in build_frame's health lines
  hb_began,                         \* history: uh_done when build_frame read the first field
  health,                           \* frame.health of the frame being built / last built
  \* ---- history of the aggregator's counting ----
  drained_all,                      \* history: per packet shape, the packets popped so far
  emitted,                          \* history: the window counters of all frames built, added up
  backlog                           \* packets queued before the aggregator started that are
                                    \*   still in the ring, ahead of ringq

ringVars == <<head_, tail_, buffer_, drops_, ppc, p_head, p_tail, p_item,
              cpc, c_tail, c_head, c_seen, c_raced, c_item, pstarted, popped, phase>>

flowVars == <<flows, ft_call, ft_before, observed, n_updates, since_reset>>

winVars == <<window_arp_, window_dns_, window_udp_small_, window_rst_,
             window_icmp_unreach_, window_total_pkts_, window_total_bytes_>>

aggVars == <<clock, traffic, ringq, n_captured, running_, apc, now, window_start, last_expire,
             fps_timer, drained, winVars, health_queue_fill_, frame, win_drained>>

mainVars == <<g_shutdown, mpc, exit_code, agg_spawned, cap_pc, cap_running_, interface_,
              handle_, break_loop, health_capture_drops_>>

\* the variables of the parts of the program that the ring, the flow table, the
\* aggregator loop and main() leave alone
stopVars == <<n_stops>>

parseVars == <<link_type, caplen, wirelen, ppos, ph, eth_offset, eth_type, vlan_layers,
               l4_offset, next_header, ext, read_end, stopped_at, n_delivered, n_pushed>>

wsVars == <<ws_pc, ws_running_, clients_, frames_sent_, conn, ws_event, ws_sent>>

topVars == <<tf_bytes, tf_call, tf_result>>

cliVars == <<argv, cli_i, args, cli_diag, cli_pc, cli_exit>>

\* the variables of the parts added last
seqVars == <<fifo, fifo_drops, ret, fifo_ret>>

lockVars == <<clients_mutex_, bc_pc, hd_pc, sv_pc>>

\* the variables of the threads around the broadcaster
healthVars == <<uh_pc, uh_arg, uh_done, uh_calls, hb_pc, hb_began, health>>

countVars == <<drained_all, emitted, backlog>>

lateVars == <<lockVars, healthVars, countVars>>

restVars == <<cliVars, seqVars, lateVars>>

extVars == <<stopVars, parseVars, wsVars, topVars, restVars>>

vars == <<ringVars, flowVars, aggVars, mainVars, extVars>>

\* ------------------------------------------------------------------------
\* Bounds of the model
\* ------------------------------------------------------------------------
\* log2 of the ring's Capacity template argument (a power of two by the static_assert)
CapBits == 2
\* number of push calls of a run
MaxPush == 5
\* number of pop calls that return an item
MaxPop == 4
\* number of FlowTable::update calls of a run of SpecFlow
MaxUpdates == 3
\* number of packets the capture thread pushes in a run of SpecAgg
MaxCapture == 2
\* number of packets the ring holds at once in SpecAgg
MaxQueue == 2
\* number of times the aggregator's sleep lasts exactly its requested duration;
\* every other sleep overruns to ExpireIntervalUs
MaxSleepSteps == 5

\* ------------------------------------------------------------------------
\* RingBuffer
\* ------------------------------------------------------------------------
RECURSIVE Pow2(_)
Pow2(n) == IF n = 0 THEN 1 ELSE 2 * Pow2(n - 1)

Capacity == Pow2(CapBits)

MASK == Capacity - 1

\* bitwise AND of two naturals
RECURSIVE BitAnd(_, _)
BitAnd(a, b) ==
  IF a = 0 \/ b = 0 THEN 0
  ELSE (a % 2) * (b % 2) + 2 * BitAnd(a \div 2, b \div 2)

\* (i + 1) & MASK
NextIndex(i) == BitAnd(i + 1, MASK)

\* (head - tail) & MASK in size_t arithmetic: the subtraction wraps modulo 2^64,
\* a multiple of Capacity, so the masked value is (head - tail) mod Capacity
Used(h, t) == BitAnd((h - t) % Capacity, MASK)

\* a slot no push has written yet, and the value of a read that raced with a write
Unwritten == 0
Torn == -1

InitRing ==
  /\ head_ = 0
  /\ tail_ = 0
  /\ buffer_ = [i \in 0..MASK |-> Unwritten]
  /\ drops_ = 0
  /\ ppc = "idle" /\ p_head = 0 /\ p_tail = 0 /\ p_item = 0
  /\ cpc = "idle" /\ c_tail = 0 /\ c_head = 0 /\ c_seen = 0 /\ c_raced = FALSE /\ c_item = 0
  /\ pstarted = 0
  /\ popped = <<>>
  /\ phase = "push"

\* ---- push(T&& item), one action per load, store or slot access ----

\* const size_t head = head_.load(relaxed)
PushLoadHead ==
  /\ ppc = "idle"
  /\ pstarted < MaxPush
  /\ p_head' = head_
  /\ p_item' = pstarted + 1
  /\ pstarted' = pstarted + 1
  /\ phase' = IF phase = "push" THEN "push" ELSE "mixed"
  /\ ppc' = "load_tail"
  /\ UNCHANGED <<head_, tail_, buffer_, drops_, p_tail,
                 cpc, c_tail, c_head, c_seen, c_raced, c_item, popped>>
  /\ UNCHANGED <<flowVars, aggVars, mainVars, extVars>>

\* size_t tail = tail_.load(acquire); if (next_head == tail)
PushLoadTail ==
  /\ ppc = "load_tail"
  /\ p_tail' = tail_
  /\ ppc' = IF NextIndex(p_head) = tail_ THEN "store_tail" ELSE "write"
  /\ UNCHANGED <<head_, tail_, buffer_, drops_, p_head, p_item,
                 cpc, c_tail, c_head, c_seen, c_raced, c_item, pstarted, popped, phase>>
  /\ UNCHANGED <<flowVars, aggVars, mainVars, extVars>>

\* tail_.store((tail + 1) & MASK, release)
PushStoreTail ==
  /\ ppc = "store_tail"
  /\ tail_' = NextIndex(p_tail)
  /\ ppc' = "count_drop"
  /\ UNCHANGED <<head_, buffer_, drops_, p_head, p_tail, p_item,
                 cpc, c_tail, c_head, c_seen, c_raced, c_item, pstarted, popped, phase>>
  /\ UNCHANGED <<flowVars, aggVars, mainVars, extVars>>

\* mutant of PushCountDrop: the overflow is not counted
PushCountDrop_NotCounted ==
  /\ ppc = "count_drop"
  /\ ppc' = "write"
  /\ UNCHANGED <<head_, tail_, buffer_, drops_, p_head, p_tail, p_item,
                 cpc, c_tail, c_head, c_seen, c_raced, c_item, pstarted, popped, phase>>
  /\ UNCHANGED <<flowVars, aggVars, mainVars, extVars>>

\* drops_++
PushCountDrop ==
  /\ ppc = "count_drop"
  /\ drops_' = drops_ + 1
  /\ ppc' = "write"
  /\ UNCHANGED <<head_, tail_, buffer_, p_head, p_tail, p_item,
                 cpc, c_tail, c_head, c_seen, c_raced, c_item, pstarted, popped, phase>>
  /\ UNCHANGED <<flowVars, aggVars, mainVars, extVars>>

\* buffer_[head] = std::move(item): the plain (non-atomic) write of the slot begins
PushWriteBegin ==
  /\ ppc = "write"
  /\ ppc' = "writing"
  /\ c_raced' = (c_raced \/ (cpc = "reading" /\ c_tail = p_head))
  /\ UNCHANGED <<head_, tail_, buffer_, drops_, p_head, p_tail, p_item,
                 cpc, c_tail, c_head, c_seen, c_item, pstarted, popped, phase>>
  /\ UNCHANGED <<flowVars, aggVars, mainVars, extVars>>

\* ... and ends
PushWriteEnd ==
  /\ ppc = "writing"
  /\ buffer_' = [buffer_ EXCEPT ![p_head] = p_item]
  /\ ppc' = "store_head"
  /\ UNCHANGED <<head_, tail_, drops_, p_head, p_tail, p_item,
                 cpc, c_tail, c_head, c_seen, c_raced, c_item, pstarted, popped, phase>>
  /\ UNCHANGED <<flowVars, aggVars, mainVars, extVars>>

\* head_.store(next_head, release); return
PushStoreHead ==
  /\ ppc = "store_head"
  /\ head_' = NextIndex(p_head)
  /\ ppc' = "idle"
  /\ UNCHANGED <<tail_, buffer_, drops_, p_head, p_tail, p_item,
                 cpc, c_tail, c_head, c_seen, c_raced, c_item, pstarted, popped, phase>>
  /\ UNCHANGED <<flowVars, aggVars, mainVars, extVars>>

\* ---- pop() ----

\* const size_t tail = tail_.load(relaxed)
PopLoadTail ==
  /\ cpc = "idle"
  /\ Len(popped) < MaxPop
  /\ c_tail' = tail_
  /\ cpc' = "load_head"
  /\ phase' = IF phase = "push" /\ ppc = "idle" THEN "pop"
              ELSE IF phase = "pop" THEN "pop" ELSE "mixed"
  /\ UNCHANGED <<head_, tail_, buffer_, drops_, ppc, p_head, p_tail, p_item,
                 c_head, c_seen, c_raced, c_item, pstarted, popped>>
  /\ UNCHANGED <<flowVars, aggVars, mainVars, extVars>>

\* const size_t head = head_.load(acquire); if (tail == head) return std::nullopt
PopLoadHead ==
  /\ cpc = "load_head"
  /\ c_head' = head_
  /\ cpc' = IF c_tail = head_ THEN "idle" ELSE "read"
  /\ UNCHANGED <<head_, tail_, buffer_, drops_, ppc, p_head, p_tail, p_item,
                 c_tail, c_seen, c_raced, c_item, pstarted, popped, phase>>
  /\ UNCHANGED <<flowVars, aggVars, mainVars, extVars>>

\* T item = std::move(buffer_[tail]): the plain read of the slot begins
PopReadBegin ==
  /\ cpc = "read"
  /\ c_seen' = buffer_[c_tail]
  /\ c_raced' = (ppc = "writing" /\ p_head = c_tail)
  /\ cpc' = "reading"
  /\ UNCHANGED <<head_, tail_, buffer_, drops_, ppc, p_head, p_tail, p_item,
                 c_tail, c_head, c_item, pstarted, popped, phase>>
  /\ UNCHANGED <<flowVars, aggVars, mainVars, extVars>>

\* the values a read of slot c_tail may yield: the slot's value when no write
\* of that slot overlapped the read; otherwise (a data race on a plain object)
\* the value before the write, the value written, or a torn mix of both
ReadOutcomes ==
  IF c_raced
    THEN {c_seen, Torn} \cup {buffer_[c_tail]}
           \cup (IF ppc = "writing" /\ p_head = c_tail THEN {p_item} ELSE {})
    ELSE {buffer_[c_tail]}

\* ... and ends
PopReadEnd ==
  /\ cpc = "reading"
  /\ \E v \in ReadOutcomes : c_item' = v
  /\ cpc' = "store_tail"
  /\ UNCHANGED <<head_, tail_, buffer_, drops_, ppc, p_head, p_tail, p_item,
                 c_tail, c_head, c_seen, c_raced, pstarted, popped, phase>>
  /\ UNCHANGED <<flowVars, aggVars, mainVars, extVars>>

\* tail_.store((tail + 1) & MASK, release); return item
PopStoreTail ==
  /\ cpc = "store_tail"
  /\ tail_' = NextIndex(c_tail)
  /\ popped' = Append(popped, c_item)
  /\ cpc' = "idle"
  /\ UNCHANGED <<head_, buffer_, drops_, ppc, p_head, p_tail, p_item,
                 c_tail, c_head, c_seen, c_raced, c_item, pstarted, phase>>
  /\ UNCHANGED <<flowVars, aggVars, mainVars, extVars>>

\* float fill_ratio(): the number of items held, (head - tail) & MASK
Held == Used(head_, tail_)

\* uint64_t drops()
Drops == drops_

\* ------------------------------------------------------------------------
\* Packet model (metrics.hpp) and the packets the decoder produces
\* ------------------------------------------------------------------------

\* SnifferConfig::flow_timeout_seconds, in microseconds of the steady clock
FlowTimeoutUs == 30000000

\* PacketHeader ph{}: every field zero / false
ZeroPacket ==
  [timestamp |-> 0, wire_len |-> 0, src_ip |-> 0, dst_ip |-> 0, protocol |-> 0,
   src_port |-> 0, dst_port |-> 0, tcp_flags |-> 0,
   is_arp |-> FALSE, is_dns |-> FALSE, is_icmp |-> FALSE]

\* a TCP segment from client 1 to server 2, port 50000 -> 443
PktTcpFwd ==
  [ZeroPacket EXCEPT !.wire_len = 1500, !.src_ip = 1, !.dst_ip = 2, !.protocol = 6,
                     !.src_port = 50000, !.dst_port = 443]
\* the reply, a TCP RST from 2 to 1, port 443 -> 50000
PktTcpRev ==
  [ZeroPacket EXCEPT !.wire_len = 60, !.src_ip = 2, !.dst_ip = 1, !.protocol = 6,
                     !.src_port = 443, !.dst_port = 50000, !.tcp_flags = 4]
\* a UDP DNS query
PktDns ==
  [ZeroPacket EXCEPT !.wire_len = 90, !.src_ip = 1, !.dst_ip = 2, !.protocol = 17,
                     !.src_port = 40000, !.dst_port = 53, !.is_dns = TRUE]
\* an ARP frame: parse_packet sets is_arp and returns, every other field stays zero
PktArp == [ZeroPacket EXCEPT !.wire_len = 42, !.is_arp = TRUE]
\* an ICMP packet: addresses and protocol decoded, no ports
PktIcmp ==
  [ZeroPacket EXCEPT !.wire_len = 98, !.src_ip = 1, !.dst_ip = 2, !.protocol = 1,
                     !.is_icmp = TRUE]
\* a frame whose decoding stopped at the link layer
PktUndecoded == [ZeroPacket EXCEPT !.wire_len = 30]

PacketShapes == {PktTcpFwd, PktTcpRev, PktDns, PktArp, PktIcmp, PktUndecoded}

Stamp(shape, t) == [shape EXCEPT !.timestamp = t]

\* ------------------------------------------------------------------------
\* FlowTable
\* ------------------------------------------------------------------------

\* FlowKey key{pkt.src_ip, pkt.dst_ip, pkt.src_port, pkt.dst_port, pkt.protocol}
FlowKeyOf(pkt) ==
  [src_ip |-> pkt.src_ip, dst_ip |-> pkt.dst_ip,
   src_port |-> pkt.src_port, dst_port |-> pkt.dst_port, protocol |-> pkt.protocol]

\* FlowKey rev_key{pkt.dst_ip, pkt.src_ip, pkt.dst_port, pkt.src_port, pkt.protocol}
RevKeyOf(pkt) ==
  [src_ip |-> pkt.dst_ip, dst_ip |-> pkt.src_ip,
   src_port |-> pkt.dst_port, dst_port |-> pkt.src_port, protocol |-> pkt.protocol]

\* mutant of Filtered: ARP frames are dropped by the filter as well
Filtered_ArpToo(pkt) == pkt.protocol = 0 /\ ~pkt.is_dns /\ ~pkt.is_icmp

\* the early return of update
Filtered(pkt) == pkt.protocol = 0 /\ ~pkt.is_arp /\ ~pkt.is_dns /\ ~pkt.is_icmp

\* mutant of Bump: the packet is added to the window counters only
Bump_WindowOnly(flow, pkt) ==
  [flow EXCEPT !.bytes_window = @ + pkt.wire_len,
               !.packets_window = @ + 1,
               !.last_seen = pkt.timestamp]

\* the counters and last_seen of an existing entry after one more packet
Bump(flow, pkt) ==
  [flow EXCEPT !.bytes_total = @ + pkt.wire_len,
               !.bytes_window = @ + pkt.wire_len,
               !.packets_total = @ + 1,
               !.packets_window = @ + 1,
               !.last_seen = pkt.timestamp]

\* the entry update creates for the first packet of a flow
NewFlow(pkt) ==
  [key |-> FlowKeyOf(pkt),
   bytes_total |-> pkt.wire_len, bytes_window |-> pkt.wire_len,
   packets_total |-> 1, packets_window |-> 1,
   first_seen |-> pkt.timestamp, last_seen |-> pkt.timestamp,
   is_https |-> (pkt.src_port = 443 \/ pkt.dst_port = 443),
   direction |-> IF pkt.src_port < pkt.dst_port THEN 1 ELSE 0]

\* flows_.emplace(key, flow)
Emplace(f, key, flow) ==
  [k \in DOMAIN f \cup {key} |-> IF k \in DOMAIN f THEN f[k] ELSE flow]

\* mutant of update: the reverse key is never looked up
update_NoReverseLookup(f, pkt) ==
  IF Filtered(pkt) THEN f
  ELSE IF FlowKeyOf(pkt) \in DOMAIN f
    THEN [f EXCEPT ![FlowKeyOf(pkt)] = Bump(@, pkt)]
    ELSE Emplace(f, FlowKeyOf(pkt), NewFlow(pkt))

\* mutant of update: a reverse-direction packet is not added to bytes_total
update_ReverseBytesLost(f, pkt) ==
  IF Filtered(pkt) THEN f
  ELSE IF RevKeyOf(pkt) \in DOMAIN f
    THEN [f EXCEPT ![RevKeyOf(pkt)] =
            [Bump(@, pkt) EXCEPT !.direction = 2, !.bytes_total = f[RevKeyOf(pkt)].bytes_total]]
  ELSE IF FlowKeyOf(pkt) \in DOMAIN f
    THEN [f EXCEPT ![FlowKeyOf(pkt)] = Bump(@, pkt)]
    ELSE Emplace(f, FlowKeyOf(pkt), NewFlow(pkt))

\* mutant of update: the early return is missing
update_Unfiltered(f, pkt) ==
  IF RevKeyOf(pkt) \in DOMAIN f
    THEN [f EXCEPT ![RevKeyOf(pkt)] = [Bump(@, pkt) EXCEPT !.direction = 2]]
  ELSE IF FlowKeyOf(pkt) \in DOMAIN f
    THEN [f EXCEPT ![FlowKeyOf(pkt)] = Bump(@, pkt)]
    ELSE Emplace(f, FlowKeyOf(pkt), NewFlow(pkt))

\* void FlowTable::update(const PacketHeader& pkt)
update(f, pkt) ==
  IF Filtered(pkt) THEN f
  ELSE IF RevKeyOf(pkt) \in DOMAIN f
    THEN [f EXCEPT ![RevKeyOf(pkt)] = [Bump(@, pkt) EXCEPT !.direction = 2]]
  ELSE IF FlowKeyOf(pkt) \in DOMAIN f
    THEN [f EXCEPT ![FlowKeyOf(pkt)] = Bump(@, pkt)]
    ELSE Emplace(f, FlowKeyOf(pkt), NewFlow(pkt))

\* flows_.erase(it)
Erase(f, key) == [k \in DOMAIN f \ {key} |-> f[k]]

\* mutant of Expired: an entry whose age equals the timeout is removed too
Expired_AtTimeout(flow, t) == t - flow.last_seen >= FlowTimeoutUs

\* age > timeout
Expired(flow, t) == t - flow.last_seen > FlowTimeoutUs

\* the loop of expire over the entries still to visit
RECURSIVE ExpireLoop(_, _, _)
ExpireLoop(f, todo, t) ==
  IF todo = {} THEN f
  ELSE LET k == CHOOSE x \in todo : TRUE
       IN IF Expired(f[k], t)
            THEN ExpireLoop(Erase(f, k), todo \ {k}, t)
            ELSE ExpireLoop(f, todo \ {k}, t)

\* void FlowTable::expire(time_point now)
expire(f, t) == ExpireLoop(f, DOMAIN f, t)

\* mutant of reset_window_counters: packets_window is not cleared
reset_window_counters_BytesOnly(f) ==
  [k \in DOMAIN f |-> [f[k] EXCEPT !.bytes_window = 0]]

\* void FlowTable::reset_window_counters()
reset_window_counters(f) ==
  [k \in DOMAIN f |-> [f[k] EXCEPT !.bytes_window = 0, !.packets_window = 0]]

\* size_t FlowTable::active_count()
active_count(f) == Cardinality(DOMAIN f)

\* ---- history kept beside the table ----

\* pkt travels along key or along its reverse
OnFlow(key, pkt) == FlowKeyOf(pkt) = key \/ RevKeyOf(pkt) = key

\* what an entry has been sent since it was created, after the call update(pkt)
\* turned table f into g: a packet counts when update did not filter it and its
\* 5-tuple is the entry's key or the reverse
Observe(obs, f, g, pkt) ==
  [k \in DOMAIN g |->
     LET hit == ~Filtered(pkt) /\ OnFlow(k, pkt)
         old == IF k \in DOMAIN f THEN obs[k] ELSE [bytes |-> 0, packets |-> 0]
     IN IF hit THEN [bytes |-> old.bytes + pkt.wire_len, packets |-> old.packets + 1]
        ELSE old]

NoCall == [op |-> "none"]

InitFlowTable ==
  /\ flows = <<>>
  /\ ft_call = NoCall
  /\ ft_before = <<>>
  /\ observed = <<>>
  /\ n_updates = 0
  /\ since_reset = FALSE

\* the time points SpecFlow passes as packet timestamps and as expire's now
PacketTimes == {0, 1, FlowTimeoutUs + 1}
SweepTimes == {FlowTimeoutUs, FlowTimeoutUs + 1}

\* one call flow_table_.update(pkt)
DoUpdate(pkt) ==
  /\ ft_before' = flows
  /\ ft_call' = [op |-> "update", pkt |-> pkt]
  /\ flows' = update(flows, pkt)
  /\ observed' = Observe(observed, flows, flows', pkt)
  /\ n_updates' = n_updates + 1
  /\ since_reset' = FALSE

\* one call flow_table_.expire(now)
DoExpire(t) ==
  /\ ft_before' = flows
  /\ ft_call' = [op |-> "expire", now |-> t]
  /\ flows' = expire(flows, t)
  /\ observed' = [k \in DOMAIN flows' |-> observed[k]]
  /\ UNCHANGED <<n_updates, since_reset>>

\* one call flow_table_.reset_window_counters()
DoReset ==
  /\ ft_before' = flows
  /\ ft_call' = [op |-> "reset"]
  /\ flows' = reset_window_counters(flows)
  /\ since_reset' = TRUE
  /\ UNCHANGED <<observed, n_updates>>

FlowUpdate ==
  /\ n_updates < MaxUpdates
  /\ \E shape \in PacketShapes, t \in PacketTimes : DoUpdate(Stamp(shape, t))
  /\ UNCHANGED <<ringVars, aggVars, mainVars, extVars>>

FlowExpire ==
  /\ \E t \in SweepTimes : DoExpire(t)
  /\ UNCHANGED <<ringVars, aggVars, mainVars, extVars>>

FlowReset ==
  /\ DoReset
  /\ UNCHANGED <<ringVars, aggVars, mainVars, extVars>>

NextFlow == FlowUpdate \/ FlowExpire \/ FlowReset


\* ------------------------------------------------------------------------
\* Aggregator
\* ------------------------------------------------------------------------

\* SnifferConfig::window_duration_ms = 16.666, in microseconds
WindowDurationUs == 16666
\* the 5.0 s between expiration sweeps, in microseconds
ExpireIntervalUs == 5000000
\* the 1.0 s between samples of the ring's fill ratio, in microseconds
FpsIntervalUs == 1000000
\* SnifferConfig::small_packet_threshold
SmallPacketThreshold == 128
\* constexpr int MAX_DRAIN
MAX_DRAIN == 4096
\* the RST bit of tcp_flags
TCP_RST == 4

Min(a, b) == IF a < b THEN a ELSE b
Max(a, b) == IF a > b THEN a ELSE b

\* sleep_ms = max(1.0, min(8.0, window_duration_ms / 4.0)), slept as whole microseconds
SleepUs == Max(1000, Min(8000, WindowDurationUs \div 4))

\* the steady clock stops at this value in the model: late enough for a flow
\* of the last captured packet to have aged out and been swept
MaxClock == (FlowTimeoutUs \div ExpireIntervalUs + 3) * ExpireIntervalUs
              + MaxSleepSteps * SleepUs

NoFrame == [built |-> FALSE]

NoneDrained == [shape \in PacketShapes |-> 0]

InitAggregatorFields ==
  /\ running_ = FALSE
  /\ apc = "idle"
  /\ now = 0 /\ window_start = 0 /\ last_expire = 0 /\ fps_timer = 0 /\ drained = 0
  /\ window_arp_ = 0 /\ window_dns_ = 0 /\ window_udp_small_ = 0 /\ window_rst_ = 0
  /\ window_icmp_unreach_ = 0 /\ window_total_pkts_ = 0 /\ window_total_bytes_ = 0
  /\ health_queue_fill_ = 0
  /\ frame = NoFrame
  /\ win_drained = NoneDrained

\* a constructed aggregator beside an empty ring
InitAggregatorState ==
  /\ ringq = <<>>
  /\ backlog = 0
  /\ n_captured = 0
  /\ InitAggregatorFields

\* the threads are spawned, the capture loop runs and no signal has arrived
InitSupervised ==
  /\ g_shutdown = FALSE
  /\ mpc = "loop"
  /\ exit_code = <<>>
  /\ agg_spawned = TRUE
  /\ cap_pc = "loop"
  /\ cap_running_ = TRUE
  /\ interface_ = TRUE
  /\ handle_ = "open"
  /\ break_loop = FALSE
  /\ health_capture_drops_ = 0

\* a 32-bit word as its two 16-bit halves <<high, low>>
Word32(hi, lo) == <<hi, lo>>

\* PacketHeader ph{} as parse_packet builds it: src_ip and dst_ip are Word32
ZeroHeader ==
  [timestamp |-> 0, captured_len |-> 0, wire_len |-> 0, ip_version |-> 0,
   src_ip |-> Word32(0, 0), dst_ip |-> Word32(0, 0), protocol |-> 0,
   src_port |-> 0, dst_port |-> 0, tcp_flags |-> 0,
   is_arp |-> FALSE, is_dns |-> FALSE, is_icmp |-> FALSE]

\* the capture loop is between two calls of pcap_next_ex on a handle of type lt
InitParser(lt) ==
  /\ link_type = lt
  /\ caplen = 0 /\ wirelen = 0
  /\ ppos = "next"
  /\ ph = ZeroHeader
  /\ eth_offset = 0 /\ eth_type = 0 /\ vlan_layers = 0
  /\ l4_offset = 0 /\ next_header = 0 /\ ext = 0
  /\ read_end = 0
  /\ stopped_at = "none"
  /\ n_delivered = 0 /\ n_pushed = 0

\* no stop() call has been made
InitStopCalls == n_stops = 0

\* the connections a client may make (the addresses of their ix::WebSocket objects)
Conns == {1, 2}

\* ws_event before any callback ran
NoEvent == [kind |-> "none", client |-> 0, msg |-> 0]

\* WSBroadcaster as constructed: running_{false}, frames_sent_{0}, no clients
InitBroadcaster ==
  /\ ws_pc = "idle"
  /\ ws_running_ = FALSE
  /\ clients_ = <<>>
  /\ frames_sent_ = 0
  /\ conn = [c \in Conns |-> "none"]
  /\ ws_event = NoEvent
  /\ ws_sent = <<>>

\* number of entries of the table top_flows is called on
TableSize == 9

\* tf_call before any top_flows call
NoTopCall == [n |-> 0, window_seconds |-> 0, made |-> FALSE, by |-> "none"]

\* an empty window: every entry has bytes_window = 0; no top_flows call made
InitTopFlows ==
  /\ tf_bytes = [i \in 1..TableSize |-> 0]
  /\ tf_call = NoTopCall
  /\ tf_result = <<>>

\* the parts of the program a specification does not exercise, as constructed
\* CliArgs as declared: port = 9770, list_interfaces = false, help = false
DefaultArgs == [interface_name |-> <<>>, port |-> 9770, list_interfaces |-> FALSE, help |-> FALSE]

\* main is entered with the arguments a
InitArgs(a) ==
  /\ argv = a
  /\ cli_i = 1
  /\ args = DefaultArgs
  /\ cli_diag = {}
  /\ cli_pc = "parse"
  /\ cli_exit = <<>>

\* std::nullopt
Nullopt == 0

\* an empty queue beside the ring
InitFifo ==
  /\ fifo = <<>>
  /\ fifo_drops = 0
  /\ ret = Nullopt
  /\ fifo_ret = Nullopt

\* no thread is inside the broadcaster and nobody holds clients_mutex_
InitLocks ==
  /\ clients_mutex_ = "free"
  /\ bc_pc = "out"
  /\ hd_pc = [c \in Conns |-> "idle"]
  /\ sv_pc = "start"

\* TelemetryFrame::health as constructed, and no update_health call so far
NoPair == [capture_drop |-> 0, queue_fill |-> 0, built |-> TRUE]

InitHealth ==
  /\ uh_pc = "out"
  /\ uh_arg = NoPair
  /\ uh_done = NoPair
  /\ uh_calls = 0
  /\ hb_pc = "out"
  /\ hb_began = NoPair
  /\ health = [NoPair EXCEPT !.built = FALSE]

\* the seven window counters, all zero
ZeroCounters ==
  [total_pkts |-> 0, total_bytes |-> 0, arp |-> 0, dns |-> 0, udp_small |-> 0, rst |-> 0,
   icmp_unreach |-> 0]

\* nothing popped and no frame built so far
InitCounting ==
  /\ drained_all = NoneDrained
  /\ emitted = ZeroCounters

InitLate == InitLocks /\ InitHealth /\ InitCounting

\* the parts added last, as constructed (the program started without arguments)
InitRest == InitArgs(<<>>) /\ InitFifo /\ InitLate

InitExt ==
  /\ InitStopCalls
  /\ InitParser("EN10MB")
  /\ InitBroadcaster
  /\ InitTopFlows
  /\ InitRest

InitAggregator ==
  /\ InitAggregatorState /\ InitSupervised /\ InitExt
  /\ clock = 0 /\ traffic = PacketShapes

\* sum of a window counter over the entries of the table
RECURSIVE SumOver(_, _, _)
SumOver(f, keys, field) ==
  IF keys = {} THEN 0
  ELSE LET k == CHOOSE x \in keys : TRUE
       IN f[k][field] + SumOver(f, keys \ {k}, field)

\* (n * 10^digits) \div w by long division, one decimal digit at a time, from
\* the quotient q and remainder r of n by w
RECURSIVE ScaledQuotient(_, _, _, _)
ScaledQuotient(q, r, w, digits) ==
  IF digits = 0 THEN q
  ELSE ScaledQuotient(q * 10 + (r * 10) \div w, (r * 10) % w, w, digits - 1)

\* uint32_t FlowTable::total_pps(window_seconds), window_seconds = window_us / 10^6:
\* the packet sum divided by the window, truncated by the cast to uint32_t
total_pps(f, window_us) ==
  IF window_us <= 0 THEN 0
  ELSE LET total_pkts == SumOver(f, DOMAIN f, "packets_window")
       IN ScaledQuotient(total_pkts \div window_us, total_pkts % window_us, window_us, 6)

\* uint32_t FlowTable::count_https()
count_https(f) == Cardinality({k \in DOMAIN f : f[k].is_https})

\* a double that is the quotient of two counters, kept as the exact fraction
Ratio(num, den) == [num |-> num, den |-> den]

\* std::min(v, 1.0)
MinOne(v) == IF v.num > v.den THEN Ratio(1, 1) ELSE v

\* frame.net.packet_loss: 0.0 unless a packet was drained in the window
packet_loss(rst, total_pkts) ==
  IF total_pkts > 0 THEN MinOne(Ratio(rst, total_pkts)) ELSE Ratio(0, 1)

\* mutant of error_rate: the resets are left out of the numerator
error_rate_IcmpOnly(rst, icmp_unreach, total_pkts) ==
  IF total_pkts > 0 THEN MinOne(Ratio(icmp_unreach, total_pkts)) ELSE Ratio(0, 1)

\* frame.net.error_rate: 0.0 unless a packet was drained in the window
error_rate(rst, icmp_unreach, total_pkts) ==
  IF total_pkts > 0 THEN MinOne(Ratio(rst + icmp_unreach, total_pkts)) ELSE Ratio(0, 1)

\* TelemetryFrame Aggregator::build_frame(window_seconds): the fields computed
\* from the flow table and the window counters
build_frame(window_us) ==
  [built |-> TRUE,
   window_us |-> window_us,
   pps |-> total_pps(flows, window_us),
   active_flows |-> active_count(flows),
   packet_loss |-> packet_loss(window_rst_, window_total_pkts_),
   error_rate |-> error_rate(window_rst_, window_icmp_unreach_, window_total_pkts_),
   arp |-> window_arp_, dns |-> window_dns_, udp_small |-> window_udp_small_,
   https_flows |-> count_https(flows),
   rst |-> window_rst_, icmp_unreach |-> window_icmp_unreach_,
   firewall_blocks |-> 0,
   total_pkts |-> window_total_pkts_,
   drained |-> win_drained]

\* the capture thread: parse_packet stamps the packet with clock::now() and
\* ring_.push queues it (packets arrive during the first MaxSleepSteps sleeps)
Capture ==
  /\ n_captured < MaxCapture
  /\ Len(ringq) < MaxQueue
  /\ clock <= MaxSleepSteps * SleepUs
  /\ \E shape \in traffic : ringq' = Append(ringq, Stamp(shape, clock))
  /\ n_captured' = n_captured + 1
  /\ UNCHANGED <<traffic, clock, running_, apc, now, window_start, last_expire, fps_timer, drained,
                 winVars, health_queue_fill_, frame, win_drained>>
  /\ UNCHANGED <<ringVars, flowVars, mainVars, extVars>>

\* Aggregator::start() up to the loop
AggStart ==
  /\ agg_spawned
  /\ apc = "idle"
  /\ running_' = TRUE
  /\ window_start' = clock /\ last_expire' = clock /\ fps_timer' = clock
  /\ apc' = "loop"
  /\ UNCHANGED <<traffic, clock, ringq, n_captured, now, drained, winVars, health_queue_fill_,
                 frame, win_drained>>
  /\ UNCHANGED <<ringVars, flowVars, mainVars, extVars>>

\* while (running_.load(acquire)) { auto now = clock::now(); drain_ring(); ...
AggLoopHead ==
  /\ apc = "loop"
  /\ IF running_
       THEN now' = clock /\ drained' = 0 /\ apc' = "drain"
       ELSE apc' = "stopped" /\ UNCHANGED <<now, drained>>
  /\ frame' = NoFrame
  /\ UNCHANGED <<traffic, clock, ringq, n_captured, running_, window_start, last_expire, fps_timer,
                 winVars, health_queue_fill_, win_drained>>
  /\ UNCHANGED <<ringVars, flowVars, mainVars, extVars>>

\* the aggregator's window counters as one record
WindowCounters ==
  [total_pkts |-> window_total_pkts_, total_bytes |-> window_total_bytes_,
   arp |-> window_arp_, dns |-> window_dns_, udp_small |-> window_udp_small_,
   rst |-> window_rst_, icmp_unreach |-> window_icmp_unreach_]

PlusCounters(a, b) == [f \in DOMAIN a |-> a[f] + b[f]]

\* what the actions of the aggregator loop that pop no packet and build no
\* frame leave alone beside the loop's own variables
besideCounting == <<stopVars, parseVars, wsVars, topVars, cliVars, seqVars, lockVars, healthVars>>

\* the shapes of the packets queued before the aggregator started, repeated
ShapeCycle == <<PktTcpFwd, PktTcpRev, PktDns, PktArp, PktIcmp, PktUndecoded>>

\* the oldest of the k such packets still in the ring
BacklogHead(k) == Stamp(ShapeCycle[(k % Len(ShapeCycle)) + 1], 0)

\* the number of items the ring holds
RingHeld == backlog + Len(ringq)

\* mutant of DrainLimitReached: the loop goes round once more
DrainLimitReached_Late(n) == n > MAX_DRAIN

\* while (drained < MAX_DRAIN) is left
DrainLimitReached(n) == n >= MAX_DRAIN

\* drain_ring(): ring_.pop() returned a packet
AggDrainPop ==
  /\ apc = "drain"
  /\ ~DrainLimitReached(drained)
  /\ RingHeld > 0
  /\ LET p == IF backlog > 0 THEN BacklogHead(backlog) ELSE Head(ringq)
     IN /\ DoUpdate(p)
        /\ window_total_pkts_' = window_total_pkts_ + 1
        /\ window_total_bytes_' = window_total_bytes_ + p.wire_len
        /\ window_arp_' = IF p.is_arp THEN window_arp_ + 1 ELSE window_arp_
        /\ window_dns_' = IF p.is_dns THEN window_dns_ + 1 ELSE window_dns_
        /\ window_icmp_unreach_' =
             IF p.is_icmp THEN window_icmp_unreach_ + 1 ELSE window_icmp_unreach_
        /\ window_udp_small_' =
             IF p.protocol = 17 /\ p.wire_len <= SmallPacketThreshold
               THEN window_udp_small_ + 1 ELSE window_udp_small_
        /\ window_rst_' =
             IF BitAnd(p.tcp_flags, TCP_RST) # 0 THEN window_rst_ + 1 ELSE window_rst_
        /\ win_drained' = [win_drained EXCEPT ![Stamp(p, 0)] = @ + 1]
        /\ drained_all' = [drained_all EXCEPT ![Stamp(p, 0)] = @ + 1]
  /\ IF backlog > 0 THEN backlog' = backlog - 1 /\ ringq' = ringq
                    ELSE backlog' = backlog /\ ringq' = Tail(ringq)
  /\ drained' = drained + 1
  /\ UNCHANGED <<traffic, clock, n_captured, running_, apc, now, window_start, last_expire, fps_timer,
                 health_queue_fill_, frame>>
  /\ UNCHANGED <<ringVars, mainVars, besideCounting, emitted>>

\* drain_ring(): ring_.pop() returned nullopt, or MAX_DRAIN packets were drained
AggDrainEnd ==
  /\ apc = "drain"
  /\ (RingHeld = 0 \/ DrainLimitReached(drained))
  /\ apc' = "window"
  /\ UNCHANGED <<traffic, clock, ringq, n_captured, running_, now, window_start, last_expire,
                 fps_timer, drained, winVars, health_queue_fill_, frame, win_drained>>
  /\ UNCHANGED <<ringVars, flowVars, mainVars, extVars>>

\* if (elapsed >= window_duration) { frame = build_frame(window_seconds); ...
AggBuildFrame ==
  /\ apc = "window"
  /\ now - window_start >= WindowDurationUs
  /\ frame' = build_frame(now - window_start)
  /\ emitted' = PlusCounters(emitted, WindowCounters)
  /\ apc' = "callback"
  /\ UNCHANGED <<traffic, clock, ringq, n_captured, running_, now, window_start, last_expire,
                 fps_timer, drained, winVars, health_queue_fill_, win_drained>>
  /\ UNCHANGED <<ringVars, flowVars, mainVars, besideCounting, drained_all, backlog>>

\* elapsed < window_duration: no frame in this tick
AggNoFrame ==
  /\ apc = "window"
  /\ now - window_start < WindowDurationUs
  /\ apc' = "expire"
  /\ UNCHANGED <<traffic, clock, ringq, n_captured, running_, now, window_start, last_expire,
                 fps_timer, drained, winVars, health_queue_fill_, frame, win_drained>>
  /\ UNCHANGED <<ringVars, flowVars, mainVars, extVars>>

\* if (frame_callback_) frame_callback_(frame)
AggCallback ==
  /\ apc = "callback"
  /\ apc' = "reset"
  /\ UNCHANGED <<traffic, clock, ringq, n_captured, running_, now, window_start, last_expire,
                 fps_timer, drained, winVars, health_queue_fill_, frame,
                 win_drained>>
  /\ UNCHANGED <<ringVars, flowVars, mainVars, extVars>>

\* mutant of AggReset: the window_* counters are zeroed but the flow table's
\* window counters are left as they were
AggReset_TotalsOnly ==
  /\ apc = "reset"
  /\ window_arp_' = 0 /\ window_dns_' = 0 /\ window_udp_small_' = 0 /\ window_rst_' = 0
  /\ window_icmp_unreach_' = 0 /\ window_total_pkts_' = 0 /\ window_total_bytes_' = 0
  /\ win_drained' = NoneDrained
  /\ window_start' = now
  /\ apc' = "expire"
  /\ UNCHANGED <<traffic, clock, ringq, n_captured, running_, now, last_expire, fps_timer, drained,
                 health_queue_fill_, frame>>
  /\ UNCHANGED <<ringVars, flowVars, mainVars, extVars>>

\* mutant of AggReset: the flow table is reset but the window_* counters and
\* window_start are left as they were
AggReset_FlowsOnly ==
  /\ apc = "reset"
  /\ DoReset
  /\ apc' = "expire"
  /\ UNCHANGED <<traffic, clock, ringq, n_captured, running_, now, window_start, last_expire,
                 fps_timer, drained, winVars, health_queue_fill_, frame, win_drained>>
  /\ UNCHANGED <<ringVars, mainVars, extVars>>

\* flow_table_.reset_window_counters(); window_* = 0; window_start = now
AggReset ==
  /\ apc = "reset"
  /\ DoReset
  /\ window_arp_' = 0 /\ window_dns_' = 0 /\ window_udp_small_' = 0 /\ window_rst_' = 0
  /\ window_icmp_unreach_' = 0 /\ window_total_pkts_' = 0 /\ window_total_bytes_' = 0
  /\ win_drained' = NoneDrained
  /\ window_start' = now
  /\ apc' = "expire"
  /\ UNCHANGED <<traffic, clock, ringq, n_captured, running_, now, last_expire, fps_timer, drained,
                 health_queue_fill_, frame>>
  /\ UNCHANGED <<ringVars, mainVars, extVars>>

\* mutant of SweepDue: a sweep also runs when exactly 5 s have passed
SweepDue_AtInterval == now - last_expire >= ExpireIntervalUs

\* expire_elapsed.count() > 5.0
SweepDue == now - last_expire > ExpireIntervalUs

\* the expiration sweep and the fill-ratio sample that end a tick
AggExpire ==
  /\ apc = "expire"
  /\ IF SweepDue
       THEN DoExpire(now) /\ last_expire' = now
       ELSE UNCHANGED <<flowVars, last_expire>>
  /\ IF now - fps_timer >= FpsIntervalUs
       THEN health_queue_fill_' = RingHeld /\ fps_timer' = now
       ELSE UNCHANGED <<health_queue_fill_, fps_timer>>
  /\ apc' = "sleep"
  /\ UNCHANGED <<traffic, clock, ringq, n_captured, running_, now, window_start, drained, winVars,
                 frame, win_drained>>
  /\ UNCHANGED <<ringVars, mainVars, extVars>>

\* std::this_thread::sleep_for(sleep_ms): the thread resumes after exactly the
\* requested time, or late; once the model's clock has reached its last value
\* the sleep returns with the clock unchanged
AggSleep ==
  /\ apc = "sleep"
  /\ \/ /\ (clock % ExpireIntervalUs) \div SleepUs < MaxSleepSteps
        /\ clock' = clock + SleepUs
     \/ /\ clock + ExpireIntervalUs <= MaxClock
        /\ clock' = clock + ExpireIntervalUs
     \/ /\ (clock % ExpireIntervalUs) \div SleepUs >= MaxSleepSteps
        /\ clock + ExpireIntervalUs > MaxClock
        /\ clock' = clock
  /\ apc' = "loop"
  /\ UNCHANGED <<traffic, ringq, n_captured, running_, now, window_start, last_expire, fps_timer,
                 drained, winVars, health_queue_fill_, frame, win_drained>>
  /\ UNCHANGED <<ringVars, flowVars, mainVars, extVars>>

NextAgg ==
  \/ Capture \/ AggStart \/ AggLoopHead \/ AggDrainPop \/ AggDrainEnd
  \/ AggBuildFrame \/ AggNoFrame \/ AggCallback \/ AggReset \/ AggExpire
  \/ AggSleep

InitAgg == InitRing /\ InitFlowTable /\ InitAggregator

SpecAgg == InitAgg /\ [][NextAgg]_vars

\* the steps of the aggregator thread
AggThread ==
  \/ AggStart \/ AggLoopHead \/ AggDrainPop \/ AggDrainEnd
  \/ AggBuildFrame \/ AggNoFrame \/ AggCallback \/ AggReset \/ AggExpire
  \/ AggSleep

\* the aggregator thread is scheduled and its sleeps return; packets may stop
\* arriving at any time
\* LiveSpecAgg watches one client/server conversation and ARP
LiveTraffic == {PktTcpFwd, PktTcpRev, PktArp}

InitAggLive ==
  /\ InitRing /\ InitFlowTable /\ InitAggregatorState /\ InitSupervised /\ InitExt
  /\ clock = 0 /\ traffic = LiveTraffic

LiveSpecAgg == InitAggLive /\ [][NextAgg]_vars /\ WF_vars(AggThread)

\* ------------------------------------------------------------------------
\* main(): the supervisor, the capture thread and the aggregator thread
\* ------------------------------------------------------------------------

\* the largest value pcap_stats reports in ps_drop
MaxPcapDrops == 1

\* the variables of the aggregator thread that neither main nor the capture
\* thread touches
aggLocalVars == <<apc, now, window_start, last_expire, fps_timer, drained, winVars,
                  frame, win_drained>>

\* signal_handler: g_shutdown.store(true)
Signal ==
  /\ mpc # "returned"
  /\ ~g_shutdown
  /\ g_shutdown' = TRUE
  /\ UNCHANGED <<mpc, exit_code, agg_spawned, cap_pc, cap_running_, interface_, handle_,
                 break_loop, health_capture_drops_>>
  /\ UNCHANGED <<ringVars, flowVars, aggVars, extVars>>

\* if (!broadcaster.start()) return 1
MainBroadcasterStart ==
  /\ mpc = "broadcaster"
  /\ \E ok \in BOOLEAN :
       /\ IF ok THEN mpc' = "spawn_capture" /\ exit_code' = exit_code
                ELSE mpc' = "returned" /\ exit_code' = <<1>>
       /\ ws_pc' = IF ok THEN "running" ELSE "failed"
       /\ ws_running_' = ok
  /\ UNCHANGED <<g_shutdown, agg_spawned, cap_pc, cap_running_, interface_, handle_,
                 break_loop, health_capture_drops_>>
  /\ UNCHANGED <<clients_, frames_sent_, conn, ws_event, ws_sent>>
  /\ UNCHANGED <<ringVars, flowVars, aggVars, stopVars, parseVars, topVars, restVars>>

\* std::thread capture_thread([&capture]() { capture.start(); })
MainSpawnCapture ==
  /\ mpc = "spawn_capture"
  /\ cap_pc' = "start"
  /\ mpc' = "spawn_aggregator"
  /\ UNCHANGED <<g_shutdown, exit_code, agg_spawned, cap_running_, interface_, handle_,
                 break_loop, health_capture_drops_>>
  /\ UNCHANGED <<ringVars, flowVars, aggVars, extVars>>

\* std::thread aggregator_thread([&aggregator]() { aggregator.start(); })
MainSpawnAggregator ==
  /\ mpc = "spawn_aggregator"
  /\ agg_spawned' = TRUE
  /\ mpc' = "loop"
  /\ UNCHANGED <<g_shutdown, exit_code, cap_pc, cap_running_, interface_, handle_,
                 break_loop, health_capture_drops_>>
  /\ UNCHANGED <<ringVars, flowVars, aggVars, extVars>>

\* while (!g_shutdown.load(acquire))
MainLoopHead ==
  /\ mpc = "loop"
  /\ mpc' = IF g_shutdown THEN "stop_capture" ELSE "tick"
  /\ UNCHANGED <<g_shutdown, exit_code, agg_spawned, cap_pc, cap_running_, interface_,
                 handle_, break_loop, health_capture_drops_>>
  /\ UNCHANGED <<ringVars, flowVars, aggVars, extVars>>

\* uint64_t CaptureEngine::packets_dropped(): 0 without a handle, else ps_drop
packets_dropped == IF handle_ = "null" THEN {0} ELSE 0..MaxPcapDrops

\* sleep_for(1 s); aggregator.update_health(capture.packets_dropped(),
\* ring_buffer.fill_ratio())
MainTick ==
  /\ mpc = "tick"
  /\ \E d \in packets_dropped : health_capture_drops_' = d
  /\ health_queue_fill_' = RingHeld
  /\ mpc' = "loop"
  /\ UNCHANGED <<g_shutdown, exit_code, agg_spawned, cap_pc, cap_running_, interface_,
                 handle_, break_loop>>
  /\ UNCHANGED <<clock, traffic, ringq, n_captured, running_, aggLocalVars>>
  /\ UNCHANGED <<ringVars, flowVars, extVars>>

\* void CaptureEngine::stop(): handle_ is a plain pointer the capture thread
\* writes without synchronisation, so the read sees the handle or still null
CaptureStop ==
  /\ mpc = "stop_capture"
  /\ cap_running_' = FALSE
  /\ \E seen \in {"null", handle_} :
       break_loop' = IF seen = "open" THEN TRUE ELSE break_loop
  /\ mpc' = "stop_aggregator"
  /\ UNCHANGED <<g_shutdown, exit_code, agg_spawned, cap_pc, interface_, handle_,
                 health_capture_drops_>>
  /\ UNCHANGED <<ringVars, flowVars, aggVars, extVars>>

\* void Aggregator::stop()
AggStop ==
  /\ mpc = "stop_aggregator"
  /\ running_' = FALSE
  /\ mpc' = "join_capture"
  /\ UNCHANGED <<g_shutdown, exit_code, agg_spawned, cap_pc, cap_running_, interface_,
                 handle_, break_loop, health_capture_drops_>>
  /\ UNCHANGED <<clock, traffic, ringq, n_captured, health_queue_fill_, aggLocalVars>>
  /\ UNCHANGED <<ringVars, flowVars, extVars>>

\* capture_thread.join() returns once CaptureEngine::start() has returned
MainJoinCapture ==
  /\ mpc = "join_capture"
  /\ cap_pc = "returned"
  /\ mpc' = "join_aggregator"
  /\ UNCHANGED <<g_shutdown, exit_code, agg_spawned, cap_pc, cap_running_, interface_,
                 handle_, break_loop, health_capture_drops_>>
  /\ UNCHANGED <<ringVars, flowVars, aggVars, extVars>>

\* mutant of MainJoinAggregator: main goes on without waiting for the thread
MainJoinAggregator_NoWait ==
  /\ mpc = "join_aggregator"
  /\ mpc' = "broadcaster_stop"
  /\ UNCHANGED <<g_shutdown, exit_code, agg_spawned, cap_pc, cap_running_, interface_,
                 handle_, break_loop, health_capture_drops_>>
  /\ UNCHANGED <<ringVars, flowVars, aggVars, extVars>>

\* aggregator_thread.join() returns once Aggregator::start() has returned
MainJoinAggregator ==
  /\ mpc = "join_aggregator"
  /\ apc = "stopped"
  /\ mpc' = "broadcaster_stop"
  /\ UNCHANGED <<g_shutdown, exit_code, agg_spawned, cap_pc, cap_running_, interface_,
                 handle_, break_loop, health_capture_drops_>>
  /\ UNCHANGED <<ringVars, flowVars, aggVars, extVars>>

\* broadcaster.stop(); ... return 0
MainReturn ==
  /\ mpc = "broadcaster_stop"
  /\ ws_pc' = "stopped" /\ ws_running_' = FALSE /\ clients_' = <<>>
  /\ mpc' = "returned"
  /\ exit_code' = <<0>>
  /\ UNCHANGED <<g_shutdown, agg_spawned, cap_pc, cap_running_, interface_, handle_,
                 break_loop, health_capture_drops_>>
  /\ UNCHANGED <<frames_sent_, conn, ws_event, ws_sent>>
  /\ UNCHANGED <<ringVars, flowVars, aggVars, stopVars, parseVars, topVars, restVars>>

\* CaptureEngine::start() up to pcap_open_live: returns when no interface is
\* configured or the open fails
CaptureOpen ==
  /\ cap_pc = "start"
  /\ IF ~interface_
       THEN cap_pc' = "returned" /\ handle_' = handle_
       ELSE \E opened \in BOOLEAN :
              IF opened THEN handle_' = "open" /\ cap_pc' = "opened"
                        ELSE handle_' = "null" /\ cap_pc' = "returned"
  /\ UNCHANGED <<g_shutdown, mpc, exit_code, agg_spawned, cap_running_, interface_,
                 break_loop, health_capture_drops_>>
  /\ UNCHANGED <<ringVars, flowVars, aggVars, extVars>>

\* running_.store(true, release)
CaptureStoreRunning ==
  /\ cap_pc = "opened"
  /\ cap_running_' = TRUE
  /\ cap_pc' = "loop"
  /\ UNCHANGED <<g_shutdown, mpc, exit_code, agg_spawned, interface_, handle_,
                 break_loop, health_capture_drops_>>
  /\ UNCHANGED <<ringVars, flowVars, aggVars, extVars>>

\* while (running_.load(acquire))
CaptureLoopHead ==
  /\ cap_pc = "loop"
  /\ cap_pc' = IF cap_running_ THEN "next" ELSE "after_loop"
  /\ UNCHANGED <<g_shutdown, mpc, exit_code, agg_spawned, cap_running_, interface_,
                 handle_, break_loop, health_capture_drops_>>
  /\ UNCHANGED <<ringVars, flowVars, aggVars, extVars>>

\* the values pcap_next_ex can return on a live handle: -2 once
\* pcap_breakloop has set the flag, else a packet (while the model has packets
\* left), a timeout or an error
NextExResults ==
  IF break_loop THEN {-2}
  ELSE {0, -1} \cup (IF n_captured < MaxCapture /\ Len(ringq) < MaxQueue /\ traffic # {}
                       THEN {1} ELSE {})

\* int result = pcap_next_ex(...) and the branch on it
CaptureNextEx ==
  /\ cap_pc = "next"
  /\ \E result \in NextExResults :
       /\ IF result = 1
            THEN /\ \E shape \in traffic : ringq' = Append(ringq, Stamp(shape, clock))
                 /\ n_captured' = n_captured + 1
            ELSE UNCHANGED <<ringq, n_captured>>
       /\ cap_pc' = IF result = -2 THEN "after_loop" ELSE "loop"
       /\ break_loop' = IF result = -2 THEN FALSE ELSE break_loop
  /\ UNCHANGED <<g_shutdown, mpc, exit_code, agg_spawned, cap_running_, interface_,
                 handle_, health_capture_drops_>>
  /\ UNCHANGED <<clock, traffic, running_, health_queue_fill_, aggLocalVars>>
  /\ UNCHANGED <<ringVars, flowVars, extVars>>

\* running_.store(false, release) after the loop; start() returns
CaptureReturn ==
  /\ cap_pc = "after_loop"
  /\ cap_running_' = FALSE
  /\ cap_pc' = "returned"
  /\ UNCHANGED <<g_shutdown, mpc, exit_code, agg_spawned, interface_, handle_,
                 break_loop, health_capture_drops_>>
  /\ UNCHANGED <<ringVars, flowVars, aggVars, extVars>>

\* the steps of the main thread
MainThread ==
  \/ MainBroadcasterStart \/ MainSpawnCapture \/ MainSpawnAggregator
  \/ MainLoopHead \/ MainTick \/ CaptureStop \/ AggStop
  \/ MainJoinCapture \/ MainJoinAggregator \/ MainReturn

\* the steps of the capture thread
CaptureThread ==
  \/ CaptureOpen \/ CaptureStoreRunning \/ CaptureLoopHead \/ CaptureNextEx
  \/ CaptureReturn

NextMain == Signal \/ MainThread \/ CaptureThread \/ AggThread

\* the packet shapes SpecMain's capture source delivers
MainTraffic == {PktArp}

\* the steady clock's value when main() starts
MainStartClock == MaxClock - MaxSleepSteps * SleepUs

\* main() has constructed capture, aggregator and broadcaster; no thread exists
InitMain ==
  /\ InitRing /\ InitFlowTable /\ InitAggregatorState /\ InitExt
  /\ clock = MainStartClock
  /\ traffic = MainTraffic
  /\ g_shutdown = FALSE
  /\ mpc = "broadcaster"
  /\ exit_code = <<>>
  /\ agg_spawned = FALSE
  /\ cap_pc = "unspawned"
  /\ cap_running_ = FALSE
  /\ interface_ \in BOOLEAN
  /\ handle_ = "null"
  /\ break_loop = FALSE
  /\ health_capture_drops_ = 0

SpecMain == InitMain /\ [][NextMain]_vars

\* every thread that can take a step is scheduled; a signal may never arrive
LiveSpecMain ==
  /\ InitMain /\ [][NextMain]_vars
  /\ WF_vars(MainThread) /\ WF_vars(CaptureThread) /\ WF_vars(AggThread)

\* ------------------------------------------------------------------------
\* Aggregator lifecycle: stop() called by any thread at any time
\* ------------------------------------------------------------------------

\* the number of stop() calls in a run
MaxStops == 2

\* mutant of AggStopCall: stop() flips the flag instead of clearing it
AggStopCall_Toggle ==
  /\ n_stops < MaxStops
  /\ running_' = ~running_
  /\ n_stops' = n_stops + 1
  /\ UNCHANGED <<clock, traffic, ringq, n_captured, health_queue_fill_, aggLocalVars>>
  /\ UNCHANGED <<ringVars, flowVars, mainVars, parseVars, wsVars, topVars, restVars>>

\* void Aggregator::stop(): running_.store(false, release)
AggStopCall ==
  /\ n_stops < MaxStops
  /\ running_' = FALSE
  /\ n_stops' = n_stops + 1
  /\ UNCHANGED <<clock, traffic, ringq, n_captured, health_queue_fill_, aggLocalVars>>
  /\ UNCHANGED <<ringVars, flowVars, mainVars, parseVars, wsVars, topVars, restVars>>

NextStop == NextAgg \/ AggStopCall

\* the aggregator thread is spawned; the capture source delivers ARP frames
InitStop ==
  /\ InitRing /\ InitFlowTable /\ InitAggregatorState /\ InitSupervised /\ InitExt
  /\ clock = 0 /\ traffic = MainTraffic

SpecStop == InitStop /\ [][NextStop]_vars

\* the aggregator thread is scheduled; nobody has to call stop()
LiveSpecStop == InitStop /\ [][NextStop]_vars /\ WF_vars(AggThread)

\* ------------------------------------------------------------------------
\* CaptureEngine::parse_packet and the capture loop's result == 1 branch
\* ------------------------------------------------------------------------
\* The bytes of the packet are chosen when parse_packet reads them: every
\* offset is read at most once, so a run fixes one packet content.

\* the snaplen passed to pcap_open_live: no caplen is larger
SnapLen == 96
\* the packets the capture source delivers in a run
MaxPackets == 2

ETH_TYPE_IP == 2048
ETH_TYPE_ARP == 2054
ETH_TYPE_IPV6 == 34525
ETH_TYPE_VLAN == 33024
ETH_TYPE_QINQ == 34984
IPPROTO_ICMP == 1
IPPROTO_TCP == 6
IPPROTO_UDP == 17
IPPROTO_ICMPV6 == 58
MAX_EXT_HEADERS == 8
\* the family value of a DLT_NULL header that selects IPv4
AF_INET_FAMILY == 2

\* the link types pcap_datalink can report
LinkTypes == {"EN10MB", "LINUX_SLL", "NULL", "OTHER"}
\* the values of a 16-bit ethertype field in the packets of the model
EtherTypes == {ETH_TYPE_IP, ETH_TYPE_ARP, ETH_TYPE_IPV6, ETH_TYPE_VLAN, ETH_TYPE_QINQ, 4660}
\* the values of the DLT_NULL family word
Families == {AF_INET_FAMILY, 30}
\* the values of ver_ihl: <<version, ihl in 32-bit words>>
VerIhls == {<<4, 4>>, <<4, 5>>, <<4, 6>>, <<4, 15>>, <<6, 5>>}
\* the values of the IPv4 protocol field and of the IPv6 next-header fields
Protocols == {IPPROTO_ICMP, IPPROTO_TCP, IPPROTO_UDP, 47}
NextHeaders == {0, 43, 44, 60, IPPROTO_TCP, IPPROTO_UDP, IPPROTO_ICMPV6, 59}
\* the values of the length byte of an IPv6 extension header
ExtLenBytes == {0, 1, 255}
\* the port numbers and TCP flag bytes in the packets of the model
SrcPorts == {53, 50000}
DstPorts == {53, 443, 5353}
FlagBytes == {4, 16}
\* IPv4 addresses 10.0.0.1 and 10.0.0.2 in host order
Ipv4Src == Word32(2560, 1)
Ipv4Dst == Word32(2560, 2)
\* the 16 bytes of the IPv6 addresses fe80::1 and fe80::2
Ipv6Src == [i \in 1..16 |-> IF i = 1 THEN 254 ELSE IF i = 2 THEN 128 ELSE IF i = 16 THEN 1 ELSE 0]
Ipv6Dst == [i \in 1..16 |-> IF i = 1 THEN 254 ELSE IF i = 2 THEN 128 ELSE IF i = 16 THEN 2 ELSE 0]

\* a ^ b on non-negative integers
RECURSIVE BitXor(_, _)
BitXor(a, b) ==
  IF a = 0 THEN b
  ELSE IF b = 0 THEN a
  ELSE ((a + b) % 2) + 2 * BitXor(a \div 2, b \div 2)

\* hash ^= byte; hash *= 16777619u (16777619 = 256 * 2^16 + 403), modulo 2^32
FnvStep(h, byte) ==
  LET lo == BitXor(h[2], byte)
      prod == lo * 403
  IN Word32((h[1] * 403 + lo * 256 + prod \div 65536) % 65536, prod % 65536)

\* the FNV-1a hash of the first n bytes of addr, from the offset basis 2166136261u
RECURSIVE Fnv1a(_, _)
Fnv1a(addr, n) ==
  IF n = 0 THEN Word32(33052, 40389)
  ELSE FnvStep(Fnv1a(addr, n - 1), addr[n])

\* a read of n bytes at offset off of data
ReadAt(off, n) == read_end' = Max(read_end, off + n)

\* two reads of data by one step: n1 bytes at o1 and n2 bytes at o2
ReadBoth(o1, n1, o2, n2) == read_end' = Max(read_end, Max(o1 + n1, o2 + n2))

\* return ph, with the stage at which decoding gave up ("none": it did not)
Return(stage) ==
  /\ ppos' = "push"
  /\ stopped_at' = stage

\* the locals of parse_packet that the IPv6 branch uses
v6Locals == <<next_header, ext>>

\* pcap_next_ex returned 1; parse_packet: PacketHeader ph{}; timestamp,
\* captured_len and wire_len
ParseBegin ==
  /\ ppos = "next"
  /\ n_delivered < MaxPackets
  /\ n_delivered' = n_delivered + 1
  /\ \E cl \in 0..SnapLen : \E wl \in {cl, 1514} :
       /\ caplen' = cl /\ wirelen' = wl
       /\ ph' = [ZeroHeader EXCEPT !.timestamp = clock, !.captured_len = cl, !.wire_len = wl]
  /\ eth_offset' = 0 /\ eth_type' = 0 /\ vlan_layers' = 0
  /\ l4_offset' = 0 /\ next_header' = 0 /\ ext' = 0
  /\ read_end' = 0
  /\ stopped_at' = "none"
  /\ ppos' = "link"
  /\ UNCHANGED <<link_type, n_pushed>>
  /\ UNCHANGED <<ringVars, flowVars, aggVars, mainVars, stopVars, wsVars, topVars, restVars>>

\* the size of the link-layer header and the offset of its ethertype / family
LinkHeaderLen == IF link_type = "EN10MB" THEN 14 ELSE IF link_type = "LINUX_SLL" THEN 16 ELSE 4

\* the negation of: if (caplen < 14 / 16 / 4) return ph
LinkHeaderCaptured == caplen >= LinkHeaderLen

\* the branch on link_type: the ethertype and the offset of the next header
ParseLink ==
  /\ ppos = "link"
  /\ IF link_type = "OTHER" \/ ~LinkHeaderCaptured
       THEN Return("link") /\ UNCHANGED <<eth_type, eth_offset, read_end>>
       ELSE /\ IF link_type = "NULL"
                 THEN /\ ReadAt(0, 4)
                      /\ \E family \in Families :
                           eth_type' = IF family = AF_INET_FAMILY THEN ETH_TYPE_IP
                                                                   ELSE ETH_TYPE_IPV6
                 ELSE /\ ReadAt(LinkHeaderLen - 2, 2)
                      /\ \E type \in EtherTypes : eth_type' = type
            /\ eth_offset' = LinkHeaderLen
            /\ ppos' = "vlan"
            /\ UNCHANGED stopped_at
  /\ UNCHANGED <<link_type, caplen, wirelen, ph, vlan_layers, l4_offset, v6Locals,
                 n_delivered, n_pushed>>
  /\ UNCHANGED <<ringVars, flowVars, aggVars, mainVars, stopVars, wsVars, topVars, restVars>>

\* one iteration of the VLAN loop, or its end
ParseVlan ==
  /\ ppos = "vlan"
  /\ IF vlan_layers < 2 /\ eth_type \in {ETH_TYPE_VLAN, ETH_TYPE_QINQ}
       THEN IF caplen < eth_offset + 4
              THEN Return("vlan") /\ UNCHANGED <<eth_type, eth_offset, vlan_layers, read_end>>
              ELSE /\ ReadAt(eth_offset + 2, 2)
                   /\ \E type \in EtherTypes : eth_type' = type
                   /\ eth_offset' = eth_offset + 4
                   /\ vlan_layers' = vlan_layers + 1
                   /\ UNCHANGED <<ppos, stopped_at>>
       ELSE /\ ppos' = "ethertype"
            /\ UNCHANGED <<eth_type, eth_offset, vlan_layers, read_end, stopped_at>>
  /\ UNCHANGED <<link_type, caplen, wirelen, ph, l4_offset, v6Locals,
                 n_delivered, n_pushed>>
  /\ UNCHANGED <<ringVars, flowVars, aggVars, mainVars, stopVars, wsVars, topVars, restVars>>

\* if (eth_type == ETH_TYPE_ARP) ...; if (eth_type == ETH_TYPE_IP) ...;
\* if (eth_type == ETH_TYPE_IPV6) ...; return ph
ParseEtherType ==
  /\ ppos = "ethertype"
  /\ IF eth_type = ETH_TYPE_ARP
       THEN ph' = [ph EXCEPT !.is_arp = TRUE] /\ Return("none")
       ELSE IF eth_type = ETH_TYPE_IP
         THEN ppos' = "ipv4" /\ UNCHANGED <<ph, stopped_at>>
         ELSE IF eth_type = ETH_TYPE_IPV6
           THEN ppos' = "ipv6" /\ UNCHANGED <<ph, stopped_at>>
           ELSE Return("none") /\ UNCHANGED ph
  /\ UNCHANGED <<link_type, caplen, wirelen, eth_offset, eth_type, vlan_layers, l4_offset,
                 v6Locals, read_end, n_delivered, n_pushed>>
  /\ UNCHANGED <<ringVars, flowVars, aggVars, mainVars, stopVars, wsVars, topVars, restVars>>

\* the IPv4 header: length, version and IHL checks, then addresses and protocol
ParseIPv4 ==
  /\ ppos = "ipv4"
  /\ IF caplen < eth_offset + 20
       THEN Return("ip") /\ UNCHANGED <<ph, l4_offset, read_end>>
       ELSE /\ ReadAt(eth_offset, 20)
            /\ \E vi \in VerIhls, proto \in Protocols :
                 LET ihl_bytes == vi[2] * 4
                 IN IF vi[1] # 4 \/ ihl_bytes < 20 \/ caplen < eth_offset + ihl_bytes
                      THEN Return("ip") /\ UNCHANGED <<ph, l4_offset>>
                      ELSE /\ l4_offset' = eth_offset + ihl_bytes
                           /\ IF proto = IPPROTO_ICMP
                                THEN /\ ph' = [ph EXCEPT !.ip_version = 4, !.src_ip = Ipv4Src,
                                                         !.dst_ip = Ipv4Dst, !.protocol = proto,
                                                         !.is_icmp = TRUE]
                                     /\ Return("none")
                                ELSE /\ ph' = [ph EXCEPT !.ip_version = 4, !.src_ip = Ipv4Src,
                                                         !.dst_ip = Ipv4Dst, !.protocol = proto]
                                     /\ ppos' = "ipv4_l4"
                                     /\ UNCHANGED stopped_at
  /\ UNCHANGED <<link_type, caplen, wirelen, eth_offset, eth_type, vlan_layers, v6Locals,
                 n_delivered, n_pushed>>
  /\ UNCHANGED <<ringVars, flowVars, aggVars, mainVars, stopVars, wsVars, topVars, restVars>>

\* mutant of TcpHeaderCaptured: the TCP header is read without a check
TcpHeaderCaptured_Unchecked == TRUE

\* caplen >= l4_offset + 20
TcpHeaderCaptured == caplen >= l4_offset + 20

\* caplen >= l4_offset + 8
UdpHeaderCaptured == caplen >= l4_offset + 8

\* the stage a packet of protocol proto stops at when no transport header was decoded
TransportStage(proto) == IF proto \in {IPPROTO_TCP, IPPROTO_UDP} THEN "transport" ELSE "none"

\* the TCP and UDP branches below an IPv4 header
ParseIPv4L4 ==
  /\ ppos = "ipv4_l4"
  /\ IF ph.protocol = IPPROTO_TCP /\ TcpHeaderCaptured
       THEN /\ ReadBoth(l4_offset, 4, l4_offset + 13, 1)
            /\ \E sp \in SrcPorts, dp \in DstPorts, fl \in FlagBytes :
                 ph' = [ph EXCEPT !.src_port = sp, !.dst_port = dp, !.tcp_flags = fl,
                                  !.is_dns = (sp = 53 \/ dp = 53)]
            /\ Return("none")
       ELSE IF ph.protocol = IPPROTO_UDP /\ UdpHeaderCaptured
         THEN /\ ReadAt(l4_offset, 4)
              /\ \E sp \in SrcPorts, dp \in DstPorts :
                   ph' = [ph EXCEPT !.src_port = sp, !.dst_port = dp,
                                    !.is_dns = (sp = 53 \/ dp = 53 \/ sp = 5353 \/ dp = 5353)]
              /\ Return("none")
         ELSE Return(TransportStage(ph.protocol)) /\ UNCHANGED <<ph, read_end>>
  /\ UNCHANGED <<link_type, caplen, wirelen, eth_offset, eth_type, vlan_layers, l4_offset,
                 v6Locals, n_delivered, n_pushed>>
  /\ UNCHANGED <<ringVars, flowVars, aggVars, mainVars, stopVars, wsVars, topVars, restVars>>

\* the fixed IPv6 header: length check, address hashes, first next-header
ParseIPv6 ==
  /\ ppos = "ipv6"
  /\ IF caplen < eth_offset + 40
       THEN Return("ip") /\ UNCHANGED <<ph, l4_offset, next_header, ext, read_end>>
       ELSE /\ ReadBoth(eth_offset + 6, 1, eth_offset + 8, 32)
            /\ ph' = [ph EXCEPT !.ip_version = 6, !.src_ip = Fnv1a(Ipv6Src, 16),
                                !.dst_ip = Fnv1a(Ipv6Dst, 16)]
            /\ \E nh \in NextHeaders : next_header' = nh
            /\ l4_offset' = eth_offset + 40
            /\ ext' = 0
            /\ ppos' = "ipv6_ext"
            /\ UNCHANGED stopped_at
  /\ UNCHANGED <<link_type, caplen, wirelen, eth_offset, eth_type, vlan_layers,
                 n_delivered, n_pushed>>
  /\ UNCHANGED <<ringVars, flowVars, aggVars, mainVars, stopVars, wsVars, topVars, restVars>>

\* Hop-by-Hop, Routing, Fragment, Destination Options
is_extension(nh) == nh \in {0, 43, 44, 60}

\* one iteration of the extension-header loop, or its end
ParseIPv6Ext ==
  /\ ppos = "ipv6_ext"
  /\ IF ext < MAX_EXT_HEADERS /\ is_extension(next_header)
       THEN IF caplen < l4_offset + 2
              THEN /\ ppos' = "ipv6_l4" /\ stopped_at' = "ext"
                   /\ UNCHANGED <<l4_offset, next_header, ext, read_end>>
              ELSE /\ ReadAt(l4_offset, 2)
                   /\ \E ext_next \in NextHeaders, len_byte \in ExtLenBytes :
                        LET ext_len == IF next_header = 44 THEN 8 ELSE len_byte * 8 + 8
                        IN /\ l4_offset' = l4_offset + ext_len
                           /\ next_header' = ext_next
                           /\ IF l4_offset + ext_len > caplen
                                THEN ppos' = "ipv6_l4" /\ stopped_at' = "ext" /\ ext' = ext
                                ELSE ext' = ext + 1 /\ UNCHANGED <<ppos, stopped_at>>
       ELSE /\ ppos' = "ipv6_l4"
            /\ UNCHANGED <<l4_offset, next_header, ext, read_end, stopped_at>>
  /\ UNCHANGED <<link_type, caplen, wirelen, ph, eth_offset, eth_type, vlan_layers,
                 n_delivered, n_pushed>>
  /\ UNCHANGED <<ringVars, flowVars, aggVars, mainVars, stopVars, wsVars, topVars, restVars>>

\* ph.protocol = next_header and the TCP, UDP, ICMPv6 and DNS branches below
\* an IPv6 header
ParseIPv6L4 ==
  /\ ppos = "ipv6_l4"
  /\ LET icmp == (next_header = IPPROTO_ICMPV6)
     IN IF next_header = IPPROTO_TCP /\ TcpHeaderCaptured
          THEN /\ ReadBoth(l4_offset, 4, l4_offset + 13, 1)
               /\ \E sp \in SrcPorts, dp \in DstPorts, fl \in FlagBytes :
                    ph' = [ph EXCEPT !.protocol = next_header, !.src_port = sp,
                                     !.dst_port = dp, !.tcp_flags = fl,
                                     !.is_dns = (sp = 53 \/ dp = 53)]
               /\ Return("none")
          ELSE IF next_header = IPPROTO_UDP /\ UdpHeaderCaptured
            THEN /\ ReadAt(l4_offset, 4)
                 /\ \E sp \in SrcPorts, dp \in DstPorts :
                      ph' = [ph EXCEPT !.protocol = next_header, !.src_port = sp,
                                       !.dst_port = dp, !.is_dns = (sp = 53 \/ dp = 53)]
                 /\ Return("none")
            ELSE /\ ph' = [ph EXCEPT !.protocol = next_header, !.is_icmp = icmp]
                 /\ Return(IF stopped_at = "ext" THEN "ext" ELSE TransportStage(next_header))
                 /\ UNCHANGED read_end
  /\ UNCHANGED <<link_type, caplen, wirelen, eth_offset, eth_type, vlan_layers, l4_offset,
                 v6Locals, n_delivered, n_pushed>>
  /\ UNCHANGED <<ringVars, flowVars, aggVars, mainVars, stopVars, wsVars, topVars, restVars>>

\* the block of the loop body ends: ph and the locals of parse_packet are gone
EndOfIteration ==
  /\ caplen' = 0 /\ wirelen' = 0
  /\ ph' = ZeroHeader
  /\ eth_offset' = 0 /\ eth_type' = 0 /\ vlan_layers' = 0
  /\ l4_offset' = 0 /\ next_header' = 0 /\ ext' = 0
  /\ read_end' = 0
  /\ stopped_at' = "none"
  /\ ppos' = "next"

\* mutant of CapturePush: a header whose decoding gave up is not pushed
CapturePush_CompleteOnly ==
  /\ ppos = "push"
  /\ n_pushed' = IF stopped_at = "none" THEN n_pushed + 1 ELSE n_pushed
  /\ EndOfIteration
  /\ UNCHANGED <<link_type, n_delivered>>
  /\ UNCHANGED <<ringVars, flowVars, aggVars, mainVars, stopVars, wsVars, topVars, restVars>>

\* ring_.push(std::move(ph)); packets_captured_.fetch_add(1)
CapturePush ==
  /\ ppos = "push"
  /\ n_pushed' = n_pushed + 1
  /\ EndOfIteration
  /\ UNCHANGED <<link_type, n_delivered>>
  /\ UNCHANGED <<ringVars, flowVars, aggVars, mainVars, stopVars, wsVars, topVars, restVars>>

NextParse ==
  \/ ParseBegin \/ ParseLink \/ ParseVlan \/ ParseEtherType
  \/ ParseIPv4 \/ ParseIPv4L4 \/ ParseIPv6 \/ ParseIPv6Ext \/ ParseIPv6L4
  \/ CapturePush

\* the capture loop runs on a handle of any link type
InitParse ==
  /\ InitRing /\ InitFlowTable /\ InitAggregatorState /\ InitSupervised
  /\ clock = 0 /\ traffic = PacketShapes
  /\ InitStopCalls /\ InitBroadcaster /\ InitTopFlows /\ InitRest
  /\ \E lt \in LinkTypes : InitParser(lt)

SpecParse == InitParse /\ [][NextParse]_vars

\* ------------------------------------------------------------------------
\* WSBroadcaster (ws_broadcaster.hpp)
\* ------------------------------------------------------------------------

\* cap on frames_sent_
MaxFrames == 2

\* tenths per unit: a JSON number is held as a count of tenths
Tenths == 10

\* the texts a client sends, as nlohmann::json::parse sees them: json is FALSE
\* where parse throws; t is <<tag, value>>, the value of a number in its own
\* unit (an integer for tag "int", tenths for tag "float")
Text(json, object, type, t) == [json |-> json, object |-> object, type |-> type, t |-> t]

Absent == <<"absent", 0>>

Msgs ==
  { Text(FALSE, FALSE, "absent", Absent),          \* not JSON
    Text(TRUE, FALSE, "absent", Absent),           \* [1]
    Text(TRUE, TRUE, "absent", <<"int", 7>>),      \* {"t":7}
    Text(TRUE, TRUE, "subscribe", Absent),         \* {"type":"subscribe"}
    Text(TRUE, TRUE, "ping", Absent),              \* {"type":"ping"}
    Text(TRUE, TRUE, "ping", <<"int", 7>>),        \* {"type":"ping","t":7}
    Text(TRUE, TRUE, "ping", <<"float", 15>>),     \* {"type":"ping","t":1.5}
    Text(TRUE, TRUE, "ping", <<"string", 0>>),     \* {"type":"ping","t":"abc"}
    Text(TRUE, TRUE, "ping", <<"null", 0>>) }      \* {"type":"ping","t":null}

\* a message sent to connection c
Sent(c, type, t) == [to |-> c, type |-> type, t |-> t]

\* cmd.value("t", 0.0): the default when the key is absent, the number
\* converted to double, and type_error 302 for a value that is not a number
value_t(t) ==
  IF t[1] = "absent" THEN [throws |-> FALSE, tenths |-> 0]
  ELSE IF t[1] = "int" THEN [throws |-> FALSE, tenths |-> t[2] * Tenths]
  ELSE IF t[1] = "float" THEN [throws |-> FALSE, tenths |-> t[2]]
  ELSE [throws |-> TRUE, tenths |-> 0]

\* case Message of handle_message: what the handler sends to ws on text m
Reply(c, m) ==
  IF ~m.json THEN <<>>
  ELSE IF ~(m.object /\ m.type = "ping") THEN <<>>
  ELSE IF value_t(m.t).throws THEN <<>>
  ELSE << Sent(c, "pong", value_t(m.t).tenths) >>

\* mutant of remove_client: only the last element of clients_ is looked at
remove_client_Back(cs, c) ==
  IF cs # <<>> /\ cs[Len(cs)] = c THEN SubSeq(cs, 1, Len(cs) - 1) ELSE cs

\* clients_.erase(std::remove(begin, end, &ws), end)
remove_client(cs, c) == SelectSeq(cs, LAMBDA x : x # c)

\* the server accepts connections and runs their callbacks
ServerUp == ws_pc \in {"started", "running"}

\* the connections are alive: the server is up or is closing them in stop()
ServerAlive == ServerUp \/ ws_pc = "stopping"

Event(kind, c, m) == [kind |-> kind, client |-> c, msg |-> m]

\* start(): server_.listen() succeeds or fails (start returns false)
WsListen ==
  /\ ws_pc = "idle"
  /\ \E ok \in BOOLEAN : ws_pc' = IF ok THEN "listening" ELSE "failed"
  /\ UNCHANGED <<ws_running_, clients_, frames_sent_, conn, ws_event, ws_sent>>
  /\ UNCHANGED <<ringVars, flowVars, aggVars, mainVars, stopVars, parseVars, topVars, restVars>>

\* start(): server_.start()
WsServerStart ==
  /\ ws_pc = "listening"
  /\ ws_pc' = "started"
  /\ UNCHANGED <<ws_running_, clients_, frames_sent_, conn, ws_event, ws_sent>>
  /\ UNCHANGED <<ringVars, flowVars, aggVars, mainVars, stopVars, parseVars, topVars, restVars>>

\* start(): running_.store(true); return true
WsStoreRunning ==
  /\ ws_pc = "started"
  /\ ws_running_' = TRUE
  /\ ws_pc' = "running"
  /\ UNCHANGED <<clients_, frames_sent_, conn, ws_event, ws_sent>>
  /\ UNCHANGED <<ringVars, flowVars, aggVars, mainVars, stopVars, parseVars, topVars, restVars>>

\* case Open: a new connection (at an address no live connection has)
OnOpen(c) ==
  /\ ServerUp
  /\ conn[c] # "open"
  /\ conn' = [conn EXCEPT ![c] = "open"]
  /\ clients_' = Append(clients_, c)
  /\ ws_event' = Event("Open", c, 0)
  /\ ws_sent' = << Sent(c, "hello", 0) >>
  /\ UNCHANGED <<ws_pc, ws_running_, frames_sent_>>
  /\ UNCHANGED <<ringVars, flowVars, aggVars, mainVars, stopVars, parseVars, topVars, restVars>>

\* case Close
OnClose(c) ==
  /\ ServerAlive
  /\ conn[c] = "open"
  /\ conn' = [conn EXCEPT ![c] = "over"]
  /\ clients_' = remove_client(clients_, c)
  /\ ws_event' = Event("Close", c, 0)
  /\ ws_sent' = <<>>
  /\ UNCHANGED <<ws_pc, ws_running_, frames_sent_>>
  /\ UNCHANGED <<ringVars, flowVars, aggVars, mainVars, stopVars, parseVars, topVars, restVars>>

\* case Error: the handshake of a new connection failed, or an open one broke
OnError(c) ==
  /\ ServerAlive
  /\ conn[c] \in {"none", "open"}
  /\ conn' = [conn EXCEPT ![c] = "over"]
  /\ clients_' = remove_client(clients_, c)
  /\ ws_event' = Event("Error", c, 0)
  /\ ws_sent' = <<>>
  /\ UNCHANGED <<ws_pc, ws_running_, frames_sent_>>
  /\ UNCHANGED <<ringVars, flowVars, aggVars, mainVars, stopVars, parseVars, topVars, restVars>>

\* case Message
OnMessage(c) ==
  /\ ServerAlive
  /\ conn[c] = "open"
  /\ \E m \in Msgs :
       /\ ws_event' = Event("Message", c, m)
       /\ ws_sent' = Reply(c, m)
  /\ UNCHANGED <<ws_pc, ws_running_, clients_, frames_sent_, conn>>
  /\ UNCHANGED <<ringVars, flowVars, aggVars, mainVars, stopVars, parseVars, topVars, restVars>>

\* broadcast(frame), called by the aggregator thread
Broadcast ==
  /\ frames_sent_ < MaxFrames
  /\ ws_event' = Event("broadcast", 0, 0)
  /\ IF ~ws_running_
       THEN ws_sent' = <<>> /\ UNCHANGED frames_sent_
       ELSE /\ ws_sent' = [i \in 1..Len(clients_) |-> Sent(clients_[i], "frame", 0)]
            /\ frames_sent_' = frames_sent_ + 1
  /\ UNCHANGED <<ws_pc, ws_running_, clients_, conn>>
  /\ UNCHANGED <<ringVars, flowVars, aggVars, mainVars, stopVars, parseVars, topVars, restVars>>

\* stop() with running_ set: server_.stop() begins, no connection is accepted
WsStopServer ==
  /\ ws_pc = "running"
  /\ ws_pc' = "stopping"
  /\ ws_event' = Event("stop", 0, 0)
  /\ ws_sent' = <<>>
  /\ UNCHANGED <<ws_running_, clients_, frames_sent_, conn>>
  /\ UNCHANGED <<ringVars, flowVars, aggVars, mainVars, stopVars, parseVars, topVars, restVars>>

\* stop(): server_.stop() has returned, every connection is gone;
\* clients_.clear(); running_.store(false)
WsStopClear ==
  /\ ws_pc = "stopping"
  /\ conn' = [c \in Conns |-> IF conn[c] = "open" THEN "over" ELSE conn[c]]
  /\ clients_' = <<>>
  /\ ws_running_' = FALSE
  /\ ws_pc' = "stopped"
  /\ UNCHANGED <<frames_sent_, ws_event, ws_sent>>
  /\ UNCHANGED <<ringVars, flowVars, aggVars, mainVars, stopVars, parseVars, topVars, restVars>>

\* stop() with running_ clear (start failed, or stop ran before): nothing
WsStopAgain ==
  /\ ws_pc \in {"failed", "stopped"}
  /\ ws_event.kind # "stop again"
  /\ ws_event' = Event("stop again", 0, 0)
  /\ ws_sent' = <<>>
  /\ UNCHANGED <<ws_pc, ws_running_, clients_, frames_sent_, conn>>
  /\ UNCHANGED <<ringVars, flowVars, aggVars, mainVars, stopVars, parseVars, topVars, restVars>>

OnCallback == \E c \in Conns : OnOpen(c) \/ OnClose(c) \/ OnError(c) \/ OnMessage(c)

NextWs ==
  \/ WsListen \/ WsServerStart \/ WsStoreRunning
  \/ OnCallback
  \/ Broadcast
  \/ WsStopServer \/ WsStopClear \/ WsStopAgain

\* a constructed broadcaster; everything else stays as constructed
InitWs ==
  /\ InitRing /\ InitFlowTable /\ InitAggregator

SpecWs == InitWs /\ [][NextWs]_vars

\* ------------------------------------------------------------------------
\* FlowTable::top_flows (flow_table.hpp) and its use by build_frame
\* ------------------------------------------------------------------------

\* the packet lengths update adds to bytes_window
PacketSizes == {1, 2}

\* the values bytes_window takes within a window
WindowBytes == {0, 1, 2}

\* the arguments n and window_seconds of the calls made
TopN == {0, 3, 8, 10}

WindowSeconds == {0, 2}

\* size of TelemetryFrame::top_flows
FrameTopFlows == 8

\* mutant of comp: the comparator orders ascending
comp_Ascending(a, b) == a < b

\* the comparator of the partial_sort: a.first > b.first
comp(a, b) == a > b

\* the position in cands of the element partial_sort puts first: none goes
\* before it by comp; among equivalent ones (their order is not specified)
\* the first of cands, or the last if later
First(tbl, cands, later) ==
  CHOOSE i \in 1..Len(cands) :
    /\ \A j \in 1..Len(cands) : ~comp(tbl[cands[j]], tbl[cands[i]])
    /\ \A j \in 1..Len(cands) :
         (~comp(tbl[cands[i]], tbl[cands[j]]) /\ j # i) => (IF later THEN j < i ELSE j > i)

\* cands without its element at position i
Without(cands, i) == SubSeq(cands, 1, i - 1) \o SubSeq(cands, i + 1, Len(cands))

\* std::partial_sort(begin, begin + count, end, comp): the first count elements
RECURSIVE partial_sort(_, _, _, _)
partial_sort(tbl, cands, count, later) ==
  IF count = 0 THEN <<>>
  ELSE LET i == First(tbl, cands, later)
       IN <<cands[i]>> \o partial_sort(tbl, Without(cands, i), count - 1, later)

\* the entries with bytes_window > 0, in iteration order
Candidates(tbl) == SelectSeq([i \in 1..TableSize |-> i], LAMBDA i : tbl[i] > 0)

\* a TopFlowSummary: the entry it was built from and its bps
Summary(tbl, i, window_seconds) == [flow |-> i, bps |-> (tbl[i] * 8) \div window_seconds]

\* top_flows(n, window_seconds)
top_flows(tbl, n, window_seconds, later) ==
  IF window_seconds <= 0 THEN <<>>
  ELSE LET candidates == Candidates(tbl)
           count == Min(n, Len(candidates))
           sorted == partial_sort(tbl, candidates, count, later)
       IN [j \in 1..count |-> Summary(tbl, sorted[j], window_seconds)]

TopCall(n, w, by) == [n |-> n, window_seconds |-> w, made |-> TRUE, by |-> by]

\* update of entry i by a packet: bytes_window += wire_len
TfUpdate ==
  /\ ~tf_call.made
  /\ \E i \in 1..TableSize, b \in PacketSizes :
       /\ tf_bytes[i] + b \in WindowBytes
       /\ tf_bytes' = [tf_bytes EXCEPT ![i] = @ + b]
  /\ UNCHANGED <<tf_call, tf_result>>
  /\ UNCHANGED <<ringVars, flowVars, aggVars, mainVars, stopVars, parseVars, wsVars, restVars>>

\* reset_window_counters
TfReset ==
  /\ ~tf_call.made
  /\ tf_bytes # [i \in 1..TableSize |-> 0]
  /\ tf_bytes' = [i \in 1..TableSize |-> 0]
  /\ UNCHANGED <<tf_call, tf_result>>
  /\ UNCHANGED <<ringVars, flowVars, aggVars, mainVars, stopVars, parseVars, wsVars, restVars>>

\* a call top_flows(n, window_seconds)
TfTopFlows ==
  /\ ~tf_call.made
  /\ \E n \in TopN, w \in WindowSeconds, later \in BOOLEAN :
       /\ tf_call' = TopCall(n, w, "caller")
       /\ tf_result' = top_flows(tf_bytes, n, w, later)
  /\ UNCHANGED tf_bytes
  /\ UNCHANGED <<ringVars, flowVars, aggVars, mainVars, stopVars, parseVars, wsVars, restVars>>

\* build_frame: top = top_flows(8, window_seconds); the frame takes top[i], i < 8
TfBuildFrame ==
  /\ ~tf_call.made
  /\ \E w \in WindowSeconds, later \in BOOLEAN :
       LET top == top_flows(tf_bytes, FrameTopFlows, w, later)
       IN /\ tf_call' = TopCall(FrameTopFlows, w, "build_frame")
          /\ tf_result' = SubSeq(top, 1, Min(Len(top), FrameTopFlows))
  /\ UNCHANGED tf_bytes
  /\ UNCHANGED <<ringVars, flowVars, aggVars, mainVars, stopVars, parseVars, wsVars, restVars>>

\* the caller is done with the vector before the aggregator thread, which
\* makes every one of these calls, goes on
TfReturn ==
  /\ tf_call.made
  /\ tf_call' = NoTopCall
  /\ tf_result' = <<>>
  /\ UNCHANGED tf_bytes
  /\ UNCHANGED <<ringVars, flowVars, aggVars, mainVars, stopVars, parseVars, wsVars, restVars>>

NextTop == TfUpdate \/ TfReset \/ TfTopFlows \/ TfBuildFrame \/ TfReturn

\* a table of TableSize entries at the start of a window
InitTop == InitRing /\ InitFlowTable /\ InitAggregator

SpecTop == InitTop /\ [][NextTop]_vars

\* ------------------------------------------------------------------------
\* parse_args and the head of main() (main.cpp)
\* ------------------------------------------------------------------------

\* number of arguments after the program name
MaxArgs == 3

\* largest int, beyond which std::stoi throws std::out_of_range
INT_MAX == 2147483647

\* the arguments a user types, character by character
Tokens ==
  { <<"-", "i">>, <<"-", "-", "i", "n", "t", "e", "r", "f", "a", "c", "e">>,
    <<"-", "p">>, <<"-", "-", "p", "o", "r", "t">>,
    <<"-", "l">>, <<"-", "-", "l", "i", "s", "t">>,
    <<"-", "h">>, <<"-", "-", "h", "e", "l", "p">>,
    <<"-", "x">>,
    <<"e", "t", "h", "0">>,
    <<"8", "0", "8", "0">>, <<"0">>, <<"6", "5", "5", "3", "6">>,
    <<"8", "0", "a", "b", "c">>,
    <<"9", "9", "9", "9", "9", "9", "9", "9", "9", "9", "9">> }

RECURSIVE ArgLists(_)
ArgLists(n) ==
  IF n = 0 THEN {<<>>}
  ELSE ArgLists(n - 1) \cup {Append(a, t) : a \in {b \in ArgLists(n - 1) : Len(b) = n - 1}, t \in Tokens}

DigitValue ==
  [c \in {"0", "1", "2", "3", "4", "5", "6", "7", "8", "9"} |->
     CASE c = "0" -> 0 [] c = "1" -> 1 [] c = "2" -> 2 [] c = "3" -> 3 [] c = "4" -> 4
       [] c = "5" -> 5 [] c = "6" -> 6 [] c = "7" -> 7 [] c = "8" -> 8 [] c = "9" -> 9]

IsDigit(c) == c \in DOMAIN DigitValue

\* the number of leading digits of the characters of str from position k on
RECURSIVE DigitRun(_, _)
DigitRun(str, k) ==
  IF k > Len(str) \/ ~IsDigit(str[k]) THEN 0 ELSE 1 + DigitRun(str, k + 1)

\* the value of the n digits of str that start at position k, or -1 once it
\* exceeds INT_MAX
RECURSIVE DigitsValue(_, _, _)
DigitsValue(str, k, n) ==
  IF n = 0 THEN 0
  ELSE LET v == DigitsValue(str, k, n - 1)
           d == DigitValue[str[k + n - 1]]
       IN IF v = -1 \/ v > (INT_MAX - d) \div 10 THEN -1 ELSE v * 10 + d

\* std::stoi(str): an optional sign, then the longest run of digits; what
\* follows the digits is ignored; throws without a digit or beyond int
stoi(str) ==
  LET signed == str # <<>> /\ str[1] \in {"-", "+"}
      first == IF signed THEN 2 ELSE 1
      n == DigitRun(str, first)
      v == DigitsValue(str, first, n)
  IN IF n = 0 \/ v = -1 THEN [throws |-> TRUE, value |-> 0]
     ELSE [throws |-> FALSE, value |-> IF signed /\ str[1] = "-" THEN 0 - v ELSE v]

IsInterfaceFlag(arg) == arg \in {<<"-", "i">>, <<"-", "-", "i", "n", "t", "e", "r", "f", "a", "c", "e">>}

IsPortFlag(arg) == arg \in {<<"-", "p">>, <<"-", "-", "p", "o", "r", "t">>}

IsListFlag(arg) == arg \in {<<"-", "l">>, <<"-", "-", "l", "i", "s", "t">>}

IsHelpFlag(arg) == arg \in {<<"-", "h">>, <<"-", "-", "h", "e", "l", "p">>}

\* std::cerr << ...; args.help = true
Complain(what) ==
  /\ cli_diag' = cli_diag \cup {what}
  /\ args' = [args EXCEPT !.help = TRUE]

\* one iteration of the loop of parse_args
ParseArg ==
  /\ cli_pc = "parse"
  /\ cli_i <= Len(argv)
  /\ LET arg == argv[cli_i]
         more == cli_i + 1 <= Len(argv)
     IN IF IsInterfaceFlag(arg)
          THEN IF more
                 THEN /\ args' = [args EXCEPT !.interface_name = argv[cli_i + 1]]
                      /\ cli_i' = cli_i + 2
                      /\ UNCHANGED cli_diag
                 ELSE Complain("-i requires an interface name") /\ cli_i' = cli_i + 1
        ELSE IF IsPortFlag(arg)
          THEN IF more
                 THEN /\ cli_i' = cli_i + 2
                      /\ LET port == stoi(argv[cli_i + 1])
                         IN IF port.throws \/ port.value < 1 \/ port.value > 65535
                              THEN Complain("invalid port number")
                              ELSE /\ args' = [args EXCEPT !.port = port.value]
                                   /\ UNCHANGED cli_diag
                 ELSE Complain("-p requires a port number") /\ cli_i' = cli_i + 1
        ELSE IF IsListFlag(arg)
          THEN /\ args' = [args EXCEPT !.list_interfaces = TRUE]
               /\ cli_i' = cli_i + 1
               /\ UNCHANGED cli_diag
        ELSE IF IsHelpFlag(arg)
          THEN /\ args' = [args EXCEPT !.help = TRUE]
               /\ cli_i' = cli_i + 1
               /\ UNCHANGED cli_diag
          ELSE Complain("Unknown argument") /\ cli_i' = cli_i + 1
  /\ UNCHANGED <<argv, cli_pc, cli_exit>>
  /\ UNCHANGED <<ringVars, flowVars, aggVars, mainVars, stopVars, parseVars, wsVars, topVars, seqVars, lateVars>>

\* return args
ParseArgsReturn ==
  /\ cli_pc = "parse"
  /\ cli_i > Len(argv)
  /\ cli_pc' = "main"
  /\ UNCHANGED <<argv, cli_i, args, cli_diag, cli_exit>>
  /\ UNCHANGED <<ringVars, flowVars, aggVars, mainVars, stopVars, parseVars, wsVars, topVars, seqVars, lateVars>>

\* if (args.help) { print_help(); return 0; }
MainHelp ==
  /\ cli_pc = "main"
  /\ args.help
  /\ cli_pc' = "exited"
  /\ cli_exit' = <<0>>
  /\ UNCHANGED <<argv, cli_i, args, cli_diag>>
  /\ UNCHANGED <<ringVars, flowVars, aggVars, mainVars, stopVars, parseVars, wsVars, topVars, seqVars, lateVars>>

\* if (args.list_interfaces) { print_interfaces(); return 0; }
MainList ==
  /\ cli_pc = "main"
  /\ ~args.help /\ args.list_interfaces
  /\ cli_pc' = "exited"
  /\ cli_exit' = <<0>>
  /\ UNCHANGED <<argv, cli_i, args, cli_diag>>
  /\ UNCHANGED <<ringVars, flowVars, aggVars, mainVars, stopVars, parseVars, wsVars, topVars, seqVars, lateVars>>

\* main goes on to install the handlers and start the sniffer
MainRun ==
  /\ cli_pc = "main"
  /\ ~args.help /\ ~args.list_interfaces
  /\ cli_pc' = "running"
  /\ UNCHANGED <<argv, cli_i, args, cli_diag, cli_exit>>
  /\ UNCHANGED <<ringVars, flowVars, aggVars, mainVars, stopVars, parseVars, wsVars, topVars, seqVars, lateVars>>

NextCli == ParseArg \/ ParseArgsReturn \/ MainHelp \/ MainList \/ MainRun

\* main is entered with any list of at most MaxArgs arguments
InitCli ==
  /\ InitRing /\ InitFlowTable /\ InitAggregatorState /\ InitSupervised
  /\ clock = 0 /\ traffic = PacketShapes
  /\ InitStopCalls /\ InitParser("EN10MB") /\ InitBroadcaster /\ InitTopFlows
  /\ InitFifo /\ InitLate
  /\ \E a \in ArgLists(MaxArgs) : InitArgs(a)

SpecCli == InitCli /\ [][NextCli]_vars

\* ------------------------------------------------------------------------
\* RingBuffer used by one call at a time (ring_buffer.hpp), beside a bounded
\* FIFO queue that discards its oldest item on overflow
\* ------------------------------------------------------------------------

\* the number of items the queue retains
FifoCapacity == Capacity - 1

\* number of push calls and of pop calls that return an item in a run of SpecSeq
MaxSeqPush == 8
MaxSeqPop == 6

\* mutant of RingFull: the ring is taken as full one slot early
RingFull_Early(head, tail) == NextIndex(NextIndex(head)) = tail

\* next_head == tail
RingFull(head, tail) == NextIndex(head) = tail

\* push(item) from entry to return, with no pop in progress
SeqPush ==
  /\ ppc = "idle" /\ cpc = "idle"
  /\ pstarted < MaxSeqPush
  /\ LET head == head_
         next_head == NextIndex(head)
         tail == tail_
         item == pstarted + 1
     IN /\ IF RingFull(head, tail)
             THEN tail_' = NextIndex(tail) /\ drops_' = drops_ + 1
             ELSE UNCHANGED <<tail_, drops_>>
        /\ buffer_' = [buffer_ EXCEPT ![head] = item]
        /\ head_' = next_head
        /\ p_head' = head /\ p_tail' = tail /\ p_item' = item
        /\ pstarted' = item
        /\ IF Len(fifo) = FifoCapacity
             THEN fifo' = Append(Tail(fifo), item) /\ fifo_drops' = fifo_drops + 1
             ELSE fifo' = Append(fifo, item) /\ UNCHANGED fifo_drops
  /\ UNCHANGED <<ret, fifo_ret>>
  /\ UNCHANGED <<ppc, cpc, c_tail, c_head, c_seen, c_raced, c_item, popped, phase>>
  /\ UNCHANGED <<flowVars, aggVars, mainVars, stopVars, parseVars, wsVars, topVars, cliVars, lateVars>>

\* pop() from entry to return, with no push in progress
SeqPop ==
  /\ ppc = "idle" /\ cpc = "idle"
  /\ Len(popped) < MaxSeqPop
  /\ LET tail == tail_
         head == head_
     IN /\ c_tail' = tail /\ c_head' = head
        /\ IF tail = head
             THEN /\ ret' = Nullopt
                  /\ UNCHANGED <<tail_, c_seen, c_item, popped>>
             ELSE /\ c_seen' = buffer_[tail] /\ c_item' = buffer_[tail]
                  /\ tail_' = NextIndex(tail)
                  /\ ret' = buffer_[tail]
                  /\ popped' = Append(popped, buffer_[tail])
  /\ IF fifo = <<>>
       THEN fifo_ret' = Nullopt /\ UNCHANGED fifo
       ELSE fifo_ret' = Head(fifo) /\ fifo' = Tail(fifo)
  /\ UNCHANGED fifo_drops
  /\ UNCHANGED <<head_, buffer_, drops_, ppc, p_head, p_tail, p_item, cpc, c_raced,
                 pstarted, phase>>
  /\ UNCHANGED <<flowVars, aggVars, mainVars, stopVars, parseVars, wsVars, topVars, cliVars, lateVars>>

NextSeq == SeqPush \/ SeqPop

\* an empty ring and an empty queue
InitSeq == InitRing /\ InitFlowTable /\ InitAggregator

SpecSeq == InitSeq /\ [][NextSeq]_vars

\* ------------------------------------------------------------------------
\* clients_mutex_: the aggregator thread in broadcast, the connection threads
\* in handle_message and the main thread in client_count and stop
\* ------------------------------------------------------------------------

\* what the threads around the mutex leave alone
besideLocks == <<ringVars, flowVars, aggVars, mainVars, stopVars, parseVars, topVars,
                 cliVars, seqVars, healthVars, countVars>>

\* std::lock_guard<std::mutex> lock(clients_mutex_) returns: the mutex was free
Acquire(thread) == clients_mutex_ = "free" /\ clients_mutex_' = thread

\* the lock_guard goes out of scope
Release(thread) == clients_mutex_ = thread /\ clients_mutex_' = "free"

\* main: broadcaster.start() returned true; the capture and the aggregator
\* thread are created and main enters its loop
SvSpawn ==
  /\ sv_pc = "start" /\ ws_pc = "running"
  /\ sv_pc' = "loop"
  /\ UNCHANGED <<clients_mutex_, bc_pc, hd_pc, wsVars, besideLocks>>

\* the aggregator thread runs its loop
AggAlive == sv_pc \in {"loop", "lock_count", "count", "join"} /\ bc_pc # "joined"

\* the frame callback calls broadcast: running_ is loaded, the payload is built
BcEnter ==
  /\ AggAlive /\ bc_pc = "out"
  /\ frames_sent_ < MaxFrames
  /\ bc_pc' = IF ws_running_ THEN "lock" ELSE "out"
  /\ UNCHANGED <<clients_mutex_, hd_pc, sv_pc, wsVars, besideLocks>>

\* broadcast: std::lock_guard lock(clients_mutex_)
BcLock ==
  /\ bc_pc = "lock"
  /\ Acquire("aggregator")
  /\ bc_pc' = "send"
  /\ UNCHANGED <<hd_pc, sv_pc, wsVars, besideLocks>>

\* broadcast: for (auto* client : clients_) client->send(payload, false)
BcSend ==
  /\ bc_pc = "send"
  /\ ws_sent' = [i \in 1..Len(clients_) |-> Sent(clients_[i], "frame", 0)]
  /\ ws_event' = Event("broadcast", 0, 0)
  /\ bc_pc' = "count"
  /\ UNCHANGED <<clients_mutex_, hd_pc, sv_pc, ws_pc, ws_running_, clients_, frames_sent_, conn,
                 besideLocks>>

\* broadcast: frames_sent_.fetch_add(1); the function returns
BcReturn ==
  /\ bc_pc = "count"
  /\ frames_sent_' = frames_sent_ + 1
  /\ Release("aggregator")
  /\ bc_pc' = "out"
  /\ UNCHANGED <<hd_pc, sv_pc, ws_pc, ws_running_, clients_, conn, ws_event, ws_sent, besideLocks>>

\* the aggregator's loop ends after aggregator.stop()
AggExit ==
  /\ bc_pc = "out" /\ sv_pc = "join"
  /\ bc_pc' = "joined"
  /\ UNCHANGED <<clients_mutex_, hd_pc, sv_pc, wsVars, besideLocks>>

\* handle_message, case Open, up to the lock_guard
HdOpen(c) ==
  /\ ServerUp /\ hd_pc[c] = "idle" /\ conn[c] # "open"
  /\ conn' = [conn EXCEPT ![c] = "open"]
  /\ hd_pc' = [hd_pc EXCEPT ![c] = "lock_push"]
  /\ UNCHANGED <<clients_mutex_, bc_pc, sv_pc, ws_pc, ws_running_, clients_, frames_sent_,
                 ws_event, ws_sent, besideLocks>>

\* handle_message, case Close or Error: remove_client up to the lock_guard
HdClose(c) ==
  /\ ServerAlive /\ hd_pc[c] = "idle" /\ conn[c] = "open"
  /\ conn' = [conn EXCEPT ![c] = "over"]
  /\ hd_pc' = [hd_pc EXCEPT ![c] = "lock_remove"]
  /\ UNCHANGED <<clients_mutex_, bc_pc, sv_pc, ws_pc, ws_running_, clients_, frames_sent_,
                 ws_event, ws_sent, besideLocks>>

\* the lock_guard of case Open or of remove_client
HdLock(c) ==
  /\ hd_pc[c] \in {"lock_push", "lock_remove"}
  /\ Acquire("handler")
  /\ hd_pc' = [hd_pc EXCEPT ![c] = IF @ = "lock_push" THEN "push" ELSE "remove"]
  /\ UNCHANGED <<bc_pc, sv_pc, wsVars, besideLocks>>

\* clients_.push_back(&ws) and the end of the locked block
HdPush(c) ==
  /\ hd_pc[c] = "push"
  /\ clients_' = Append(clients_, c)
  /\ Release("handler")
  /\ hd_pc' = [hd_pc EXCEPT ![c] = "idle"]
  /\ UNCHANGED <<bc_pc, sv_pc, ws_pc, ws_running_, frames_sent_, conn, ws_event, ws_sent,
                 besideLocks>>

\* clients_.erase(std::remove(...)) and the return of remove_client
HdRemove(c) ==
  /\ hd_pc[c] = "remove"
  /\ clients_' = remove_client(clients_, c)
  /\ Release("handler")
  /\ hd_pc' = [hd_pc EXCEPT ![c] = "idle"]
  /\ UNCHANGED <<bc_pc, sv_pc, ws_pc, ws_running_, frames_sent_, conn, ws_event, ws_sent,
                 besideLocks>>

\* main's loop, every tenth tick: broadcaster.client_count() up to the lock_guard
SvClientCount ==
  /\ sv_pc = "loop"
  /\ sv_pc' = "lock_count"
  /\ UNCHANGED <<clients_mutex_, bc_pc, hd_pc, wsVars, besideLocks>>

\* the lock_guard of client_count or of stop
SvLock ==
  /\ sv_pc \in {"lock_count", "lock_clear"}
  /\ Acquire("supervisor")
  /\ sv_pc' = IF sv_pc = "lock_count" THEN "count" ELSE "clear"
  /\ UNCHANGED <<bc_pc, hd_pc, wsVars, besideLocks>>

\* client_count: return clients_.size()
SvCountReturn ==
  /\ sv_pc = "count"
  /\ Release("supervisor")
  /\ sv_pc' = "loop"
  /\ UNCHANGED <<bc_pc, hd_pc, wsVars, besideLocks>>

\* g_shutdown is set: capture.stop(); aggregator.stop(); main goes to the joins
SvShutdown ==
  /\ sv_pc = "loop"
  /\ sv_pc' = "join"
  /\ UNCHANGED <<clients_mutex_, bc_pc, hd_pc, wsVars, besideLocks>>

\* aggregator_thread.join() returns; broadcaster.stop() calls server_.stop()
SvJoin ==
  /\ sv_pc = "join" /\ bc_pc = "joined"
  /\ ws_pc' = "stopping"
  /\ sv_pc' = "stopping"
  /\ UNCHANGED <<clients_mutex_, bc_pc, hd_pc, ws_running_, clients_, frames_sent_, conn,
                 ws_event, ws_sent, besideLocks>>

\* server_.stop() returns: every connection thread has ended
SvServerStopped ==
  /\ sv_pc = "stopping"
  /\ \A c \in Conns : hd_pc[c] = "idle"
  /\ conn' = [c \in Conns |-> IF conn[c] = "open" THEN "over" ELSE conn[c]]
  /\ sv_pc' = "lock_clear"
  /\ UNCHANGED <<clients_mutex_, bc_pc, hd_pc, ws_pc, ws_running_, clients_, frames_sent_,
                 ws_event, ws_sent, besideLocks>>

\* stop: clients_.clear(); the lock is released; running_.store(false)
SvClear ==
  /\ sv_pc = "clear"
  /\ clients_' = <<>>
  /\ Release("supervisor")
  /\ ws_running_' = FALSE
  /\ ws_pc' = "stopped"
  /\ sv_pc' = "done"
  /\ UNCHANGED <<bc_pc, hd_pc, frames_sent_, conn, ws_event, ws_sent, besideLocks>>

HandlerThread == \E c \in Conns : HdOpen(c) \/ HdClose(c) \/ HdLock(c) \/ HdPush(c) \/ HdRemove(c)

BroadcastThread == BcEnter \/ BcLock \/ BcSend \/ BcReturn \/ AggExit

SupervisorThread ==
  \/ SvSpawn \/ SvClientCount \/ SvLock \/ SvCountReturn
  \/ SvShutdown \/ SvJoin \/ SvServerStopped \/ SvClear

NextLock ==
  \/ WsListen \/ WsServerStart \/ WsStoreRunning
  \/ HandlerThread \/ BroadcastThread \/ SupervisorThread

InitLock == InitRing /\ InitFlowTable /\ InitAggregator

SpecLock == InitLock /\ [][NextLock]_vars

\* ------------------------------------------------------------------------
\* health_capture_drops_ and health_queue_fill_: plain fields of Aggregator,
\* written by main in update_health and by the aggregator's own loop, read by
\* build_frame
\* ------------------------------------------------------------------------

MaxHealthCalls == 3
MaxHealth == 2

\* what capture.packets_dropped() and ring_buffer.fill_ratio() can return
HealthValues == 0..MaxHealth

\* what the threads around the health fields leave alone
besideHealth == <<ringVars, flowVars, stopVars, parseVars, wsVars, topVars, cliVars, seqVars,
                  lockVars, countVars>>
mainButHealth == <<g_shutdown, mpc, exit_code, agg_spawned, cap_pc, cap_running_, interface_,
                   handle_, break_loop>>
aggButHealth == <<clock, traffic, ringq, n_captured, running_, aggLocalVars>>

\* main: aggregator.update_health(capture.packets_dropped(), ring_buffer.fill_ratio())
UpdateHealthCall ==
  /\ uh_pc = "out" /\ uh_calls < MaxHealthCalls
  /\ \E d \in HealthValues, q \in HealthValues :
       uh_arg' = [capture_drop |-> d, queue_fill |-> q, built |-> TRUE]
  /\ uh_calls' = uh_calls + 1
  /\ uh_pc' = "drops"
  /\ UNCHANGED <<uh_done, hb_pc, hb_began, health, health_capture_drops_, health_queue_fill_>>
  /\ UNCHANGED <<mainButHealth, aggButHealth, besideHealth>>

\* health_capture_drops_ = capture_drops
UpdateHealthDrops ==
  /\ uh_pc = "drops"
  /\ health_capture_drops_' = uh_arg.capture_drop
  /\ uh_pc' = "fill"
  /\ UNCHANGED <<uh_arg, uh_done, uh_calls, hb_pc, hb_began, health, health_queue_fill_>>
  /\ UNCHANGED <<mainButHealth, aggButHealth, besideHealth>>

\* health_queue_fill_ = queue_fill; update_health returns
UpdateHealthFill ==
  /\ uh_pc = "fill"
  /\ health_queue_fill_' = uh_arg.queue_fill
  /\ uh_done' = uh_arg
  /\ uh_pc' = "out"
  /\ UNCHANGED <<uh_arg, uh_calls, hb_pc, hb_began, health, health_capture_drops_>>
  /\ UNCHANGED <<mainButHealth, aggButHealth, besideHealth>>

\* the aggregator's loop, once a second: health_queue_fill_ = ring_.fill_ratio()
FpsSample ==
  /\ hb_pc = "out"
  /\ \E q \in HealthValues : health_queue_fill_' = q
  /\ UNCHANGED <<healthVars, health_capture_drops_>>
  /\ UNCHANGED <<mainButHealth, aggButHealth, besideHealth>>

\* build_frame: frame.health.capture_drop = health_capture_drops_
BuildFrameDrops ==
  /\ hb_pc = "out"
  /\ health' = [capture_drop |-> health_capture_drops_, queue_fill |-> 0, built |-> FALSE]
  /\ hb_began' = uh_done
  /\ hb_pc' = "fill"
  /\ UNCHANGED <<uh_pc, uh_arg, uh_done, uh_calls, health_capture_drops_, health_queue_fill_>>
  /\ UNCHANGED <<mainButHealth, aggButHealth, besideHealth>>

\* build_frame: frame.health.queue_fill = health_queue_fill_; the frame is returned
BuildFrameFill ==
  /\ hb_pc = "fill"
  /\ health' = [health EXCEPT !.queue_fill = health_queue_fill_, !.built = TRUE]
  /\ hb_pc' = "out"
  /\ UNCHANGED <<uh_pc, uh_arg, uh_done, uh_calls, hb_began, health_capture_drops_,
                 health_queue_fill_>>
  /\ UNCHANGED <<mainButHealth, aggButHealth, besideHealth>>

NextHealth ==
  \/ UpdateHealthCall \/ UpdateHealthDrops \/ UpdateHealthFill
  \/ FpsSample \/ BuildFrameDrops \/ BuildFrameFill

InitHealthSpec == InitRing /\ InitFlowTable /\ InitAggregator

SpecHealth == InitHealthSpec /\ [][NextHealth]_vars

\* ------------------------------------------------------------------------
\* The aggregator started behind a backlog: the capture thread, created first,
\* has queued more packets than one drain_ring call takes
\* ------------------------------------------------------------------------

\* packets in the ring beyond MAX_DRAIN when the aggregator starts
DrainExtra == 2

InitDrain ==
  /\ InitRing /\ InitFlowTable /\ InitAggregatorFields /\ InitSupervised /\ InitExt
  /\ clock = 0 /\ traffic = PacketShapes
  /\ ringq = <<>>
  /\ backlog = MAX_DRAIN + DrainExtra
  /\ n_captured = 0

SpecDrain == InitDrain /\ [][NextAgg]_vars

InitFlow == InitRing /\ InitFlowTable /\ InitAggregator

SpecFlow == InitFlow /\ [][NextFlow]_vars

NextRing ==
  \/ PushLoadHead \/ PushLoadTail \/ PushStoreTail \/ PushCountDrop
  \/ PushWriteBegin \/ PushWriteEnd \/ PushStoreHead
  \/ PopLoadTail \/ PopLoadHead \/ PopReadBegin \/ PopReadEnd \/ PopStoreTail

\* an empty ring; the flow table and the aggregator stay as constructed
InitRingBuffer == InitRing /\ InitFlowTable /\ InitAggregator

SpecRing == InitRingBuffer /\ [][NextRing]_vars

\* ------------------------------------------------------------------------
\* Claims about the ring buffer (checked under SpecRing)
\* ------------------------------------------------------------------------

\* the items pushed are numbered 1, 2, ... in push order
IsItem(v) == v >= 1

\* C1: with one producer and one consumer, under every interleaving of their
\* loads and stores, the items returned by pop are in push order: no pop
\* returns an item pushed before (or equal to) one an earlier pop returned.
C1_PopsInPushOrder ==
  \A i, j \in 1..Len(popped) :
    (i < j /\ IsItem(popped[i]) /\ IsItem(popped[j])) => popped[i] < popped[j]

\* no push and no pop is in progress
Quiescent == ppc = "idle" /\ cpc = "idle"

\* C2: whenever no call is in progress, drops() equals completed pushes minus
\* pops that returned an item minus items currently held.
C2_DropsAccounting ==
  Quiescent => Drops = pstarted - Len(popped) - Held

\* the slot holding the i-th oldest retained item
SlotFromTail(i) == BitAnd(tail_ + i - 1, MASK)

\* C3 (as claimed): after N >= Capacity pushes with no pops, drops() = N - Capacity
\* and the ring holds the most recent Capacity items, which pops then return
\* in push order.
C3_BurstKeepsCapacity ==
  /\ (phase = "push" /\ ppc = "idle" /\ pstarted >= Capacity) =>
       /\ Drops = pstarted - Capacity
       /\ \A i \in 1..Capacity : buffer_[SlotFromTail(i)] = pstarted - Capacity + i
  /\ (phase = "pop" /\ pstarted >= Capacity) =>
       \A i \in 1..Len(popped) : popped[i] = pstarted - Capacity + i

\* C3 (amended): after N >= Capacity - 1 pushes with no pops, drops() =
\* N - (Capacity - 1) and the ring holds the most recent Capacity - 1 items,
\* which pops then return in push order.
C3_BurstKeepsCapacityMinusOne ==
  /\ (phase = "push" /\ ppc = "idle" /\ pstarted >= Capacity - 1) =>
       /\ Drops = pstarted - (Capacity - 1)
       /\ Held = Capacity - 1
       /\ \A i \in 1..(Capacity - 1) :
            buffer_[SlotFromTail(i)] = pstarted - (Capacity - 1) + i
  /\ (phase = "pop" /\ pstarted >= Capacity - 1) =>
       /\ Drops = pstarted - (Capacity - 1)
       /\ Len(popped) <= Capacity - 1
       /\ \A i \in 1..Len(popped) : popped[i] = pstarted - (Capacity - 1) + i

\* an overflowing burst has been pushed and then popped completely
C3_Witness ==
  /\ phase = "pop" /\ cpc = "idle"
  /\ pstarted > Capacity
  /\ Len(popped) = Capacity - 1
  /\ Drops = pstarted - (Capacity - 1)

\* ------------------------------------------------------------------------
\* Claims about the flow table (checked under SpecFlow)
\* ------------------------------------------------------------------------

\* the key with source and destination swapped
Reverse(key) ==
  [src_ip |-> key.dst_ip, dst_ip |-> key.src_ip,
   src_port |-> key.dst_port, dst_port |-> key.src_port, protocol |-> key.protocol]

\* the last call was update with a packet the filter lets through
UpdatedWith(pkt) == ft_call.op = "update" /\ ft_call.pkt = pkt /\ ~Filtered(pkt)

\* C4: after any sequence of update and expire calls the table never holds a
\* key and its reverse as two separate entries; a packet whose reverse key is
\* present updates that entry and sets its direction to 2, and an entry is
\* inserted only when both the forward and the reverse key are absent.
C4_OneEntryPerKeyPair ==
  /\ \A k \in DOMAIN flows : Reverse(k) \in DOMAIN flows => Reverse(k) = k
  /\ ft_call.op = "update" =>
       LET pkt == ft_call.pkt
           key == FlowKeyOf(pkt)
           rev == Reverse(key)
       IN /\ (~Filtered(pkt) /\ rev \in DOMAIN ft_before) =>
               /\ DOMAIN flows = DOMAIN ft_before
               /\ flows[rev].direction = 2
               /\ flows[rev].packets_total = ft_before[rev].packets_total + 1
               /\ \A k \in DOMAIN flows \ {rev} : flows[k] = ft_before[k]
          /\ DOMAIN flows # DOMAIN ft_before =>
               /\ key \notin DOMAIN ft_before
               /\ rev \notin DOMAIN ft_before
               /\ DOMAIN flows = DOMAIN ft_before \cup {key}

\* a reply has just been folded into the entry its forward packet created
C4_Witness ==
  /\ UpdatedWith(ft_call.pkt)
  /\ FlowKeyOf(ft_call.pkt) # RevKeyOf(ft_call.pkt)
  /\ RevKeyOf(ft_call.pkt) \in DOMAIN ft_before
  /\ ft_before[RevKeyOf(ft_call.pkt)].direction # 2
  /\ Cardinality(DOMAIN flows) >= 2

\* C5: each existing flow's bytes_total is the sum of wire_len, and its
\* packets_total the number, of the non-filtered packets observed since the
\* entry was created whose 5-tuple is the entry's key or its reverse.
C5_TotalsAreSums ==
  /\ DOMAIN observed = DOMAIN flows
  /\ \A k \in DOMAIN flows :
       /\ flows[k].bytes_total = observed[k].bytes
       /\ flows[k].packets_total = observed[k].packets

\* a flow has carried packets in both directions and another flow exists
C5_Witness ==
  \E k \in DOMAIN flows :
    /\ flows[k].direction = 2
    /\ k # Reverse(k)
    /\ flows[k].packets_total >= 2
    /\ flows[k].bytes_total = PktTcpFwd.wire_len + PktTcpRev.wire_len
    /\ Cardinality(DOMAIN flows) >= 2

\* C7: expire(now) removes exactly the entries with now - last_seen >
\* flow_timeout_seconds (an entry whose age equals the timeout is kept) and
\* leaves every remaining entry unchanged.
C7_ExpireRemovesExactlyTheOld ==
  ft_call.op = "expire" =>
    /\ DOMAIN flows \subseteq DOMAIN ft_before
    /\ \A k \in DOMAIN ft_before :
         /\ k \in DOMAIN flows <=> ft_call.now - ft_before[k].last_seen <= FlowTimeoutUs
         /\ k \in DOMAIN flows => flows[k] = ft_before[k]

\* one sweep kept an entry aged exactly the timeout and removed an older one
C7_Witness ==
  /\ ft_call.op = "expire"
  /\ \E k \in DOMAIN flows : ft_call.now - flows[k].last_seen = FlowTimeoutUs
  /\ \E k \in DOMAIN ft_before : k \notin DOMAIN flows

\* ------------------------------------------------------------------------
\* Claims about the aggregator loop (checked under SpecAgg / LiveSpecAgg)
\* ------------------------------------------------------------------------

WindowCountersZero ==
  \A k \in DOMAIN flows : flows[k].bytes_window = 0 /\ flows[k].packets_window = 0

\* C6: after the aggregator finishes a frame boundary, and after any call of
\* reset_window_counters(), every flow has bytes_window = 0 and
\* packets_window = 0, until the next packet is drained.
C6_WindowCountersZeroAfterFrame ==
  /\ since_reset => WindowCountersZero
  /\ (frame.built /\ apc \in {"expire", "sleep", "loop"}) => since_reset

\* a frame boundary has been finished with a flow in the table that had
\* received packets in the window
C6_Witness ==
  /\ frame.built /\ apc = "sleep" /\ since_reset
  /\ frame.pps > 0
  /\ flows # <<>>

\* the keys the packets of the model can create
KeyUniverse == {FlowKeyOf(shape) : shape \in PacketShapes}

\* C8: while the aggregator runs, a flow that receives no further packets is
\* eventually removed; it is deleted at the first expiration sweep at which
\* now - last_seen exceeds flow_timeout_seconds and never earlier, and a sweep
\* runs in a tick exactly when more than 5 s have passed since the previous
\* one (so a flow last seen at t = 0 is gone after a sweep at t = 35 s).
C8_IdleFlowExpires ==
  /\ [](ft_call.op = "expire" =>
          \A k \in DOMAIN flows : ft_call.now - flows[k].last_seen <= FlowTimeoutUs)
  /\ [][(DOMAIN flows \ DOMAIN flows' # {}) =>
          /\ apc = "expire"
          /\ now - last_expire > ExpireIntervalUs
          /\ \A k \in DOMAIN flows \ DOMAIN flows' :
               now - flows[k].last_seen > FlowTimeoutUs]_vars
  /\ [][apc = "expire" =>
          IF now - last_expire > ExpireIntervalUs
            THEN ft_call' = [op |-> "expire", now |-> now] /\ last_expire' = now
            ELSE flows' = flows /\ last_expire' = last_expire]_vars
  /\ \A k \in KeyUniverse : (k \in DOMAIN flows) ~> (k \notin DOMAIN flows)

\* a flow last seen at t = 0 survived the sweep at 30 s and is removed by a
\* sweep after 35 s, leaving the table empty
C8_Witness ==
  /\ ft_call.op = "expire" /\ apc = "sleep"
  /\ ft_call.now >= FlowTimeoutUs + ExpireIntervalUs
  /\ \E k \in DOMAIN ft_before : ft_before[k].last_seen = 0
  /\ active_count(flows) = 0

\* the frame of this tick was built from a window in which n ARP packets and
\* no other packet were drained
ArpOnlyFrame(n) ==
  /\ frame.built /\ apc \in {"callback", "reset"}
  /\ n >= 1
  /\ frame.drained[PktArp] = n
  /\ \A shape \in PacketShapes \ {PktArp} : frame.drained[shape] = 0

\* C9 (as claimed): when N ARP packets and no others are drained in one
\* window, the frame has proto.arp = N, net.active_flows = 0 and
\* net.pps = N / window_seconds.
C9_ArpCountedWithoutFlow ==
  \A n \in 1..MaxCapture :
    ArpOnlyFrame(n) =>
      /\ frame.arp = n
      /\ frame.active_flows = 0
      /\ frame.pps = (n * 1000000) \div frame.window_us

\* C9 (amended): ... the frame has proto.arp = N and net.pps = N /
\* window_seconds (truncated to an integer), and the ARP packets share one
\* flow-table entry, keyed by the all-zero 5-tuple, which net.active_flows
\* counts.
C9_ArpCountedAsOneFlow ==
  \A n \in 1..MaxCapture :
    ArpOnlyFrame(n) =>
      /\ frame.arp = n
      /\ frame.pps = (n * 1000000) \div frame.window_us
      /\ FlowKeyOf(PktArp) \in DOMAIN flows
      /\ flows[FlowKeyOf(PktArp)].packets_window = n
      /\ frame.active_flows = active_count(flows)
      /\ frame.active_flows >= 1

\* a frame of a window with two ARP packets and nothing else, in a table
\* that holds the ARP entry only
C9_Witness ==
  /\ ArpOnlyFrame(2)
  /\ frame.active_flows = 1
  /\ frame.pps > 0

\* ------------------------------------------------------------------------
\* Claims about shutdown (checked under LiveSpecMain)
\* ------------------------------------------------------------------------

\* C10: once the shutdown flag is set, at any time after the threads were
\* spawned (even before either thread has run the body of start()), the
\* supervisor stops capture and aggregator, both loops exit, the joins return
\* and main returns 0: no interleaving of stop() with start() leaves a thread
\* looping forever.
C10_ShutdownTerminates ==
  (g_shutdown /\ agg_spawned) ~> (mpc = "returned" /\ exit_code = <<0>>)

\* ------------------------------------------------------------------------
\* Claims about the aggregator's lifecycle (checked under LiveSpecStop)
\* ------------------------------------------------------------------------

\* Idle -> Running -> Stopping -> Stopped, numbered in that order
LifecycleRank ==
  IF apc = "idle" THEN 0
  ELSE IF apc = "stopped" THEN 3
  ELSE IF running_ THEN 1 ELSE 2

\* C11: when stop() is called one or more times while the loop is Running, the
\* loop completes at most the iteration in progress, then start() returns and
\* is_running() is false; a stop() call after the first changes nothing, and
\* the lifecycle only moves Idle -> Running -> Stopping -> Stopped.
C11_StopEndsTheLoop ==
  /\ [](apc = "stopped" => ~running_)
  /\ [][LifecycleRank' >= LifecycleRank]_vars
  /\ [][(LifecycleRank = 2 /\ apc = "loop" /\ apc' # apc) => apc' = "stopped"]_vars
  /\ [][(n_stops' # n_stops /\ ~running_) =>
          UNCHANGED <<ringVars, flowVars, aggVars, mainVars>>]_vars
  /\ (LifecycleRank = 2) ~> (apc = "stopped")

\* stop() was called twice, the second time after the loop had seen the first,
\* and start() has returned
C11_Witness ==
  /\ apc = "stopped" /\ ~running_
  /\ n_stops >= 2
  /\ ft_call.op # "none"

\* ------------------------------------------------------------------------
\* Claims about the exit status (checked under SpecMain)
\* ------------------------------------------------------------------------

\* CaptureEngine::start() returned without capturing: no interface was found
\* or pcap_open_live failed
CaptureFailedToStart == cap_pc = "returned" /\ handle_ = "null"

\* C12: when the capture subsystem fails to start (no interface, or the
\* capture source cannot be opened) or the WebSocket listener fails to start,
\* the process exits with status 1; status 0 is returned only on a clean
\* shutdown after both subsystems started.
C12_ExitStatusReportsStartFailure ==
  (mpc = "returned" /\ exit_code = <<0>>) => ~CaptureFailedToStart

\* ------------------------------------------------------------------------
\* Claims about the decoder (checked under SpecParse)
\* ------------------------------------------------------------------------

\* the fields of ph that the IP header stage sets
IpFieldsZero ==
  /\ ph.ip_version = 0 /\ ph.src_ip = Word32(0, 0) /\ ph.dst_ip = Word32(0, 0)
  /\ ph.protocol = 0 /\ ~ph.is_icmp

\* the fields of ph that the transport header stage sets
TransportFieldsZero ==
  /\ ph.src_port = 0 /\ ph.dst_port = 0 /\ ph.tcp_flags = 0 /\ ~ph.is_dns

\* C13: for every packet the capture source delivers, the capture loop pushes
\* exactly one PacketHeader however far decoding got; when decoding stops at a
\* stage (link header, VLAN tag, IP header, transport header) every field of a
\* later stage is zero/false, captured_len and wire_len are always populated,
\* and no decoding failure skips the push.
C13_PartialHeaderIsPushed ==
  /\ n_pushed = (IF ppos = "next" THEN n_delivered ELSE n_delivered - 1)
  /\ ppos = "push" =>
       /\ ph.captured_len = caplen /\ ph.wire_len = wirelen
       /\ stopped_at \in {"link", "vlan"} =>
            IpFieldsZero /\ TransportFieldsZero /\ ~ph.is_arp
       /\ stopped_at \in {"ip", "ext", "transport"} => TransportFieldsZero

\* a second packet, an IPv4 TCP segment cut short inside its TCP header, is
\* about to be pushed with its IP fields set, after the first was pushed
C13_Witness ==
  /\ ppos = "push" /\ stopped_at = "transport"
  /\ ph.ip_version = 4 /\ ph.protocol = IPPROTO_TCP
  /\ caplen < l4_offset + 20
  /\ n_delivered = 2 /\ n_pushed = 1

\* C20: for every link type, caplen and content, parse_packet never reads a
\* byte at an offset >= caplen: every read of the link header, a VLAN tag, the
\* IPv4 or IPv6 header, an IPv6 extension header or the TCP/UDP header lies
\* below caplen.
C20_ReadsBelowCaplen == read_end <= caplen

\* an IPv6 packet behind a VLAN tag whose capture ends right after the first
\* two bytes of its second extension header, which were read
C20_Witness ==
  /\ ppos = "push" /\ stopped_at = "ext"
  /\ vlan_layers >= 1 /\ ph.ip_version = 6 /\ ext >= 1
  /\ read_end = caplen

\* ------------------------------------------------------------------------
\* Claims about the broadcaster (checked under SpecWs)
\* ------------------------------------------------------------------------

\* the elements of a sequence
Range(seq) == {seq[i] : i \in 1..Len(seq)}

\* the connections for which Open was handled and no Close or Error since
OpenConns == {c \in Conns : conn[c] = "open"}

\* C14: the broadcaster's client set is exactly the connections for which an
\* Open was handled and no Close or Error since; each Open adds the connection
\* once and sends it one hello, Close and Error remove it, and after stop()
\* the set is empty.
C14_ClientSetTracksConnections ==
  /\ ws_pc # "stopped" => Range(clients_) = OpenConns
  /\ Len(clients_) = Cardinality(Range(clients_))
  /\ ws_event.kind = "Open" =>
       /\ ws_event.client \in Range(clients_)
       /\ ws_sent = << Sent(ws_event.client, "hello", 0) >>
  /\ ws_event.kind \in {"Close", "Error"} => ws_event.client \notin Range(clients_)
  /\ ws_pc = "stopped" => clients_ = <<>>

\* the first of two connected clients has just closed, the second stays
C14_Witness ==
  /\ ws_event = Event("Close", 1, 0)
  /\ clients_ = <<2>>
  /\ conn[2] = "open"
  /\ ws_running_

\* an inbound JSON object of type "ping" that carries a field t
IsPingWithT(m) == m.json /\ m.object /\ m.type = "ping" /\ m.t[1] # "absent"

\* the t of a pong, a double held in tenths, equals the value t of the ping
SameT(tenths, t) ==
  \/ t[1] = "int" /\ tenths = t[2] * Tenths
  \/ t[1] = "float" /\ tenths = t[2]

\* C15: every inbound JSON object whose type is "ping" and that carries a
\* field t gets exactly one reply, of type "pong", whose t equals the ping's t,
\* for every value of t a client may send.
C15_EveryPingIsAnswered ==
  (ws_event.kind = "Message" /\ IsPingWithT(ws_event.msg)) =>
    /\ Len(ws_sent) = 1
    /\ ws_sent[1].to = ws_event.client
    /\ ws_sent[1].type = "pong"
    /\ SameT(ws_sent[1].t, ws_event.msg.t)

\* ------------------------------------------------------------------------
\* Claims about top_flows (checked under SpecTop)
\* ------------------------------------------------------------------------

\* the entries with bytes_window > 0
Positive == {i \in 1..TableSize : tf_bytes[i] > 0}

\* the entries the returned summaries were built from
Chosen == {tf_result[j].flow : j \in 1..Len(tf_result)}

\* C16: top_flows(n, w) with w > 0 returns min(n, k) summaries, k being the
\* number of entries with bytes_window > 0: those of the entries with the
\* largest bytes_window, in non-increasing order of bytes_window; every
\* emitted frame carries at most 8 of them.
C16_TopFlowsAreTheLargest ==
  (tf_call.made /\ tf_call.window_seconds > 0) =>
    /\ Len(tf_result) = Min(tf_call.n, Cardinality(Positive))
    /\ Cardinality(Chosen) = Len(tf_result)
    /\ Chosen \subseteq Positive
    /\ \A i \in Positive \ Chosen : \A c \in Chosen : tf_bytes[c] >= tf_bytes[i]
    /\ \A j \in 1..(Len(tf_result) - 1) :
         tf_bytes[tf_result[j].flow] >= tf_bytes[tf_result[j + 1].flow]
    /\ tf_call.by = "build_frame" => Len(tf_result) <= FrameTopFlows

\* a frame built from a table whose nine entries all carry bytes, of unequal
\* amounts: eight summaries, the entry left out is one of the smaller
C16_Witness ==
  /\ tf_call.made /\ tf_call.by = "build_frame" /\ tf_call.window_seconds = 2
  /\ Cardinality(Positive) = 9
  /\ Len(tf_result) = 8
  /\ tf_bytes[tf_result[1].flow] = 2 /\ tf_bytes[tf_result[8].flow] = 1
  /\ \E i \in Positive \ Chosen : tf_bytes[i] = 1

\* ------------------------------------------------------------------------
\* Claims about a flow's counters (checked under SpecFlow)
\* ------------------------------------------------------------------------

\* C17: every flow always has packets_total >= packets_window and
\* bytes_total >= bytes_window.
C17_TotalsCoverWindow ==
  \A k \in DOMAIN flows :
    /\ flows[k].packets_total >= flows[k].packets_window
    /\ flows[k].bytes_total >= flows[k].bytes_window

\* a flow that was updated before and after a reset of the window counters:
\* its totals exceed its non-zero window counters
C17_Witness ==
  \E k \in DOMAIN flows :
    /\ flows[k].packets_window > 0 /\ flows[k].bytes_window > 0
    /\ flows[k].packets_total > flows[k].packets_window
    /\ flows[k].bytes_total > flows[k].bytes_window

\* ------------------------------------------------------------------------
\* Claims about the running pipeline (checked under SpecRing)
\* ------------------------------------------------------------------------

\* the header the capture thread pushed as item i: one flow's packet, stamped
\* from the steady clock before its push, so stamps grow with push order
PushedHeader(i) == Stamp(PktTcpFwd, i)

\* flows_ after the aggregator applied update to the first n popped headers,
\* in pop order (a header read while it was being written is left out)
RECURSIVE PipelineTable(_)
PipelineTable(n) ==
  IF n = 0 THEN <<>>
  ELSE IF IsItem(popped[n]) THEN update(PipelineTable(n - 1), PushedHeader(popped[n]))
  ELSE PipelineTable(n - 1)

\* C18: in the running pipeline, where the capture thread stamps each header
\* from a monotonic clock before pushing it and the aggregator applies headers
\* in pop order, each flow's last_seen never decreases.
C18_LastSeenNeverDecreases ==
  \A n \in 1..Len(popped) :
    \A k \in DOMAIN PipelineTable(n - 1) :
      PipelineTable(n)[k].last_seen >= PipelineTable(n - 1)[k].last_seen

\* ------------------------------------------------------------------------
\* Claims about the frame's ratios (checked under SpecAgg)
\* ------------------------------------------------------------------------

\* the fraction v lies in [0, 1]
InUnitInterval(v) == v.den > 0 /\ 0 <= v.num /\ v.num <= v.den

\* the fraction v equals num / den capped at 1 (den > 0)
IsCappedQuotient(v, num, den) ==
  IF num > den THEN v.num = v.den ELSE v.num * den = num * v.den

\* C19: in every frame packet_loss and error_rate lie in [0, 1]:
\* packet_loss = rst / total and error_rate = (rst + icmp) / total, capped at
\* 1, when total > 0 packets were drained in the window, and both are 0 when
\* none was.
C19_RatiosInUnitInterval ==
  frame.built =>
    /\ InUnitInterval(frame.packet_loss) /\ InUnitInterval(frame.error_rate)
    /\ frame.total_pkts > 0 =>
         /\ IsCappedQuotient(frame.packet_loss, frame.rst, frame.total_pkts)
         /\ IsCappedQuotient(frame.error_rate, frame.rst + frame.icmp_unreach,
                             frame.total_pkts)
    /\ frame.total_pkts = 0 => frame.packet_loss.num = 0 /\ frame.error_rate.num = 0

\* a frame of a window in which a TCP segment and its RST reply were drained:
\* packet_loss = error_rate = 1/2
C19_Witness ==
  /\ frame.built
  /\ frame.total_pkts = 2 /\ frame.rst = 1 /\ frame.icmp_unreach = 0
  /\ frame.packet_loss = Ratio(1, 2)
  /\ frame.error_rate = Ratio(1, 2)

\* ------------------------------------------------------------------------
\* Claims about the decoder's DNS flag (checked under SpecParse)
\* ------------------------------------------------------------------------

\* parse_packet has returned a header whose TCP or UDP header was captured whole
TransportDecoded ==
  /\ ppos = "push" /\ stopped_at = "none"
  /\ ph.ip_version \in {4, 6}
  /\ \/ ph.protocol = IPPROTO_TCP /\ TcpHeaderCaptured
     \/ ph.protocol = IPPROTO_UDP /\ UdpHeaderCaptured

\* the rule for is_dns: TCP with a port 53, or UDP with a port 53 or 5353
DnsByRule ==
  \/ ph.protocol = IPPROTO_TCP /\ (ph.src_port = 53 \/ ph.dst_port = 53)
  \/ ph.protocol = IPPROTO_UDP /\ (ph.src_port \in {53, 5353} \/ ph.dst_port \in {53, 5353})

\* C21: for both IPv4 and IPv6 packets whose transport header is fully
\* captured, is_dns is set iff the protocol is TCP and either port is 53, or
\* the protocol is UDP and either port is 53 or 5353; otherwise is_dns is false.
C21_IsDnsFollowsTheRule ==
  /\ TransportDecoded => (ph.is_dns <=> DnsByRule)
  /\ (ppos = "push" /\ ~TransportDecoded) => ~ph.is_dns

\* ------------------------------------------------------------------------
\* Claims about the command line (checked under SpecCli)
\* ------------------------------------------------------------------------

\* a port value as documented: decimal digits only, between 1 and 65535
IsPortValue(str) ==
  /\ str # <<>>
  /\ \A k \in 1..Len(str) : IsDigit(str[k])
  /\ DigitsValue(str, 1, Len(str)) \in 1..65535

\* the arguments from position k on contain an unknown flag, a flag without
\* its value, or a port value that is not numeric or not in 1..65535
RECURSIVE Malformed(_, _)
Malformed(a, k) ==
  IF k > Len(a) THEN FALSE
  ELSE IF IsInterfaceFlag(a[k]) THEN k = Len(a) \/ Malformed(a, k + 2)
  ELSE IF IsPortFlag(a[k]) THEN k = Len(a) \/ ~IsPortValue(a[k + 1]) \/ Malformed(a, k + 2)
  ELSE IF IsListFlag(a[k]) \/ IsHelpFlag(a[k]) THEN Malformed(a, k + 1)
  ELSE TRUE

\* main has returned or has gone on to run the sniffer
Decided == cli_pc \in {"exited", "running"}

\* C22: for any argument list containing an unknown flag, a flag missing its
\* value, or a port value that is non-numeric or outside 1..65535, the program
\* prints a diagnostic and exits with a nonzero status, whereas -h/--help and
\* -l/--list alone exit with status 0.
C22_MalformedArgumentsFail ==
  Decided =>
    /\ Malformed(argv, 1) =>
         cli_pc = "exited" /\ cli_diag # {} /\ cli_exit # <<0>>
    /\ (Len(argv) = 1 /\ (IsHelpFlag(argv[1]) \/ IsListFlag(argv[1]))) =>
         cli_pc = "exited" /\ cli_exit = <<0>>

\* ------------------------------------------------------------------------
\* Claims about the ring used by one call at a time (checked under SpecSeq)
\* ------------------------------------------------------------------------

\* the items the ring retains, oldest first
RingContents == [i \in 1..Held |-> buffer_[SlotFromTail(i)]]

\* C23: for any sequence of push and pop calls that do not overlap in time the
\* ring behaves as a bounded FIFO queue with drop-oldest overflow: pop returns
\* empty iff the queue holds no item and otherwise removes and returns the
\* oldest retained item; push on a full ring discards exactly the oldest
\* retained item and increments drops by 1; push on a non-full ring leaves
\* tail and drops unchanged.
C23_RingIsABoundedFifo ==
  /\ [](/\ RingContents = fifo
        /\ Drops = fifo_drops
        /\ ret = fifo_ret
        /\ (ret = Nullopt) = (fifo_ret = Nullopt))
  /\ [][pstarted' # pstarted =>
          IF Len(fifo) = FifoCapacity
            THEN /\ Drops' = Drops + 1
                 /\ RingContents' = Append(Tail(RingContents), pstarted')
            ELSE /\ tail_' = tail_ /\ Drops' = Drops
                 /\ RingContents' = Append(RingContents, pstarted')]_vars
  /\ [][(fifo = <<>> /\ pstarted' = pstarted) => (ret' = Nullopt /\ RingContents' = <<>>)]_vars

\* after an overflow and a pop of the oldest retained item, a pop of the
\* emptied ring has returned nothing
C23_Witness ==
  /\ Drops >= 1
  /\ Len(popped) = FifoCapacity /\ popped[1] = Drops + 1
  /\ fifo = <<>> /\ ret = Nullopt

\* ------------------------------------------------------------------------
\* Claims about the ring's slots (checked under SpecRing)
\* ------------------------------------------------------------------------

\* the producer is writing the slot the consumer is moving out of
SlotRace == ppc = "writing" /\ cpc = "reading" /\ p_head = c_tail

\* C24: under single-producer/single-consumer use the producer never writes a
\* slot while the consumer is reading that same slot, and every item returned
\* by pop is the complete value written by one push whose store of head
\* preceded the pop's read of the slot, also when the producer overflows and
\* advances tail while a pop has already loaded tail.
C24_NoSlotIsWrittenWhileRead ==
  /\ ~SlotRace
  /\ cpc \in {"reading", "store_tail"} => ~c_raced
  /\ \A i \in 1..Len(popped) : IsItem(popped[i])

\* ------------------------------------------------------------------------
\* Claims about update's filter and about the fixed fields of a flow
\* (checked under SpecFlow)
\* ------------------------------------------------------------------------

\* the last call was update with a packet of protocol 0 that is neither ARP,
\* DNS nor ICMP
UpdatedWithUndecoded ==
  /\ ft_call.op = "update"
  /\ ft_call.pkt.protocol = 0
  /\ ~ft_call.pkt.is_arp /\ ~ft_call.pkt.is_dns /\ ~ft_call.pkt.is_icmp

\* C25: FlowTable::update with a packet whose protocol = 0 and whose is_arp,
\* is_dns and is_icmp are all false leaves the flow table completely unchanged.
C25_UndecodedPacketIsIgnored == UpdatedWithUndecoded => flows = ft_before

\* such a packet arrived when the table held the entry of its own 5-tuple
\* (created by an ARP frame) and another one
C25_Witness ==
  /\ UpdatedWithUndecoded
  /\ FlowKeyOf(ft_call.pkt) \in DOMAIN ft_before
  /\ Cardinality(DOMAIN ft_before) >= 2

\* the entry of key k was in the table before the last call and still is
Kept(k) == k \in DOMAIN ft_before /\ k \in DOMAIN flows

\* the last call was update with a packet that created the entry of its key
CreatedBy(pkt) ==
  /\ UpdatedWith(pkt)
  /\ FlowKeyOf(pkt) \notin DOMAIN ft_before
  /\ FlowKeyOf(pkt) \in DOMAIN flows

\* the direction and is_https a first packet gives its flow
FirstPacketFields ==
  CreatedBy(ft_call.pkt) =>
    LET pkt == ft_call.pkt
        flow == flows[FlowKeyOf(pkt)]
    IN /\ flow.direction = 1 <=> pkt.src_port < pkt.dst_port
       /\ flow.direction = 0 <=> ~(pkt.src_port < pkt.dst_port)
       /\ flow.is_https <=> (pkt.src_port = 443 \/ pkt.dst_port = 443)

\* key, first_seen and is_https of an entry are the same after every call
FixedFields ==
  /\ \A k \in DOMAIN flows : flows[k].key = k
  /\ \A k \in DOMAIN flows :
       Kept(k) => /\ flows[k].first_seen = ft_before[k].first_seen
                  /\ flows[k].is_https = ft_before[k].is_https

\* direction moves only to 2, only by a packet travelling along the reverse of
\* the key, and never away from 2
DirectionOnlyByReverse ==
  \A k \in DOMAIN flows :
    Kept(k) =>
      /\ ft_before[k].direction = 2 => flows[k].direction = 2
      /\ flows[k].direction # ft_before[k].direction =>
           /\ flows[k].direction = 2
           /\ UpdatedWith(ft_call.pkt)
           /\ RevKeyOf(ft_call.pkt) = k

\* a packet whose 5-tuple is the entry's key leaves the entry's direction alone
SameDirectionKeeps ==
  \A k \in DOMAIN flows :
    (Kept(k) /\ UpdatedWith(ft_call.pkt) /\ FlowKeyOf(ft_call.pkt) = k) =>
      flows[k].direction = ft_before[k].direction

\* C26: a new flow gets direction = 1 exactly when its first packet has
\* src_port < dst_port and direction = 0 otherwise, and is_https = (src_port =
\* 443 or dst_port = 443); afterwards its key, first_seen and is_https never
\* change, a packet in the same direction leaves direction unchanged, and
\* direction becomes 2 only when a reverse-direction packet has been observed
\* and then stays 2 until the flow expires.
C26_FlowIdentityAndDirection ==
  FirstPacketFields /\ FixedFields /\ DirectionOnlyByReverse /\ SameDirectionKeeps

\* ------------------------------------------------------------------------
\* Claims about the order of callback and reset (checked under SpecAgg)
\* ------------------------------------------------------------------------

\* every window_* counter of the aggregator is zero
WindowTotalsZero ==
  /\ window_arp_ = 0 /\ window_dns_ = 0 /\ window_udp_small_ = 0 /\ window_rst_ = 0
  /\ window_icmp_unreach_ = 0 /\ window_total_pkts_ = 0 /\ window_total_bytes_ = 0

\* C27: in every tick that emits a frame, the aggregator resets the flow table
\* window counters, zeroes all window_* counters and advances window_start
\* before it invokes the frame callback, so the callback never runs while the
\* window counters still hold the emitted window's values.
C27_ResetBeforeCallback ==
  apc = "callback" => (WindowCountersZero /\ WindowTotalsZero /\ window_start = now)

\* C27 as the code has it: in every tick that emits a frame the aggregator
\* invokes the frame callback first, while the flow table and the window_*
\* counters still hold the values the frame was built from, and only then
\* resets the flow table window counters, zeroes all window_* counters and
\* sets window_start to the tick's now.
C27_CallbackBeforeReset ==
  /\ [](apc \in {"callback", "reset"} => frame = build_frame(now - window_start))
  /\ [][apc = "callback" => UNCHANGED <<winVars, flows, window_start>>]_vars
  /\ [][(apc # "reset" /\ apc' = "reset") => apc = "callback"]_vars
  /\ [][(apc = "reset" /\ apc' # "reset") =>
          (WindowCountersZero' /\ WindowTotalsZero' /\ window_start' = now)]_vars

\* the callback is about to run for a window in which packets were counted
C27_Witness ==
  /\ apc = "callback"
  /\ frame.built /\ frame.total_pkts > 0
  /\ window_total_pkts_ = frame.total_pkts
  /\ \E k \in DOMAIN flows : flows[k].packets_window > 0
  /\ window_start < now

\* ------------------------------------------------------------------------
\* Claims about clients_mutex_ (checked under SpecLock)
\* ------------------------------------------------------------------------

\* the aggregator thread stands at broadcast's lock_guard and another thread
\* holds the mutex
AggregatorWaits == bc_pc = "lock" /\ clients_mutex_ # "free"

\* C28: the aggregator thread never waits on a lock or on another thread; it
\* only blocks in its per-tick sleep of clamp(window_duration/4, 1 ms, 8 ms).
\* In particular emitting a frame through the callback cannot make it wait for
\* the broadcaster's client-set mutex held by a connection handler,
\* client_count() or stop().
C28_AggregatorNeverWaitsOnLock == ~AggregatorWaits

\* ------------------------------------------------------------------------
\* Claims about the health fields (checked under SpecHealth)
\* ------------------------------------------------------------------------

\* no thread writes a health field while build_frame is between its two reads
\* or another writer is between its two writes
NoWriteDuringRead == ~(hb_pc = "fill" /\ uh_pc \in {"drops", "fill"})

\* C29: the health values handed from the supervisor to the aggregator are
\* published atomically or under a lock, with the supervisor as the only
\* writer: every frame's health.capture_drop and health.queue_fill are the
\* pair passed to the most recent completed update_health call (or zeros
\* before any call), with no unsynchronized concurrent write and read.
C29_HealthIsAConsistentPair ==
  /\ NoWriteDuringRead
  /\ health.built => (health = hb_began \/ health = uh_done)
  /\ uh_pc = "out" =>
       /\ health_capture_drops_ = uh_done.capture_drop
       /\ health_queue_fill_ = uh_done.queue_fill

\* ------------------------------------------------------------------------
\* Claims about the order of the shutdown (checked under SpecMain)
\* ------------------------------------------------------------------------

\* both worker threads have returned from their start()
WorkersTerminated == cap_pc = "returned" /\ apc = "stopped"

\* C30: during shutdown the broadcaster's stop() is invoked only after both
\* the capture and the aggregator threads have terminated and been joined, so
\* no frame callback ever calls broadcast on a stopping or stopped broadcaster.
C30_StopAfterJoins ==
  /\ [][(ws_pc = "running" /\ ws_pc' # "running") =>
          (mpc = "broadcaster_stop" /\ WorkersTerminated)]_vars
  /\ [](ws_pc = "stopped" => WorkersTerminated)
  /\ [](apc = "callback" => (ws_pc = "running" /\ ws_running_))

\* the broadcaster was stopped after a run in which packets were captured and
\* a frame went through the callback
C30_Witness ==
  /\ ws_pc = "stopped" /\ mpc = "returned" /\ exit_code = <<0>>
  /\ WorkersTerminated
  /\ n_captured > 0
  /\ window_start > MainStartClock

\* ------------------------------------------------------------------------
\* Claims about the window totals (checked under SpecAgg)
\* ------------------------------------------------------------------------

\* the packet and byte counts total_pps and total_bps divide by the window
FlowWindowPackets == SumOver(flows, DOMAIN flows, "packets_window")
FlowWindowBytes == SumOver(flows, DOMAIN flows, "bytes_window")

\* C31: at every point of the aggregator's execution between ticks, the sum
\* over all flows of packets_window is <= window_total_pkts and the sum of
\* bytes_window is <= window_total_bytes (they differ only by filtered packets
\* and expired flows), so the packet and byte counts behind net.pps and
\* net.bps never exceed the aggregator's own window totals.
C31_FlowSumsWithinWindowTotals ==
  /\ FlowWindowPackets <= window_total_pkts_
  /\ FlowWindowBytes <= window_total_bytes_
  /\ frame.built => frame.pps * frame.window_us <= frame.total_pkts * 1000000

\* a frame is being emitted for a window in which a flow's packet and a
\* filtered packet were drained: the sums are positive and below the totals
C31_Witness ==
  /\ apc = "callback" /\ frame.built
  /\ 0 < FlowWindowPackets /\ FlowWindowPackets < window_total_pkts_
  /\ 0 < FlowWindowBytes /\ FlowWindowBytes < window_total_bytes_

\* ------------------------------------------------------------------------
\* Claims about what a frame counts (checked under SpecDrain)
\* ------------------------------------------------------------------------

RECURSIVE CountWhere(_, _, _)
\* the sum of weight[shape] * d[shape] over the shapes in todo
CountWhere(d, todo, weight) ==
  IF todo = {} THEN 0
  ELSE LET shape == CHOOSE x \in todo : TRUE
       IN weight[shape] * d[shape] + CountWhere(d, todo \ {shape}, weight)

\* 1 for the shapes a counter counts, 0 for the others
Counts(counted(_)) == [p \in PacketShapes |-> IF counted(p) THEN 1 ELSE 0]

\* what the seven window counters are for the packets d counts, by the
\* meaning of each counter
CountersOf(d) ==
  LET IsAny(p) == TRUE
      IsArp(p) == p.is_arp
      IsDns(p) == p.is_dns
      IsUdpSmall(p) == p.protocol = 17 /\ p.wire_len <= SmallPacketThreshold
      IsRst(p) == BitAnd(p.tcp_flags, TCP_RST) # 0
      IsIcmp(p) == p.is_icmp
  IN [total_pkts |-> CountWhere(d, PacketShapes, Counts(IsAny)),
      total_bytes |-> CountWhere(d, PacketShapes, [p \in PacketShapes |-> p.wire_len]),
      arp |-> CountWhere(d, PacketShapes, Counts(IsArp)),
      dns |-> CountWhere(d, PacketShapes, Counts(IsDns)),
      udp_small |-> CountWhere(d, PacketShapes, Counts(IsUdpSmall)),
      rst |-> CountWhere(d, PacketShapes, Counts(IsRst)),
      icmp_unreach |-> CountWhere(d, PacketShapes, Counts(IsIcmp))]

\* the window counters hold packets no built frame has counted yet
WindowPending == apc \notin {"callback", "reset"}

\* C32: every packet popped from the ring is counted in the window counters
\* (total packets, total bytes, arp, dns, udp_small, rst, icmp) of at most one
\* emitted frame, namely the next frame emitted after it is drained, and a
\* frame's counters count only packets drained since the previous frame was
\* emitted; one tick drains at most 4096 packets and leaves the rest in the
\* ring for later ticks.
C32_EachPacketInOneFrame ==
  /\ [](CountersOf(drained_all) =
          IF WindowPending THEN PlusCounters(emitted, WindowCounters) ELSE emitted)
  /\ [](WindowCounters = CountersOf(win_drained))
  /\ [](drained <= MAX_DRAIN)
  /\ [][(apc = "drain" /\ apc' # "drain") =>
          (ringq' = ringq /\ backlog' = backlog /\ (RingHeld = 0 \/ drained = MAX_DRAIN))]_vars
  /\ [][emitted' # emitted => emitted' = PlusCounters(emitted, CountersOf(win_drained))]_vars

\* a second frame with packets is being emitted after a first tick that
\* stopped at 4096 packets and left the rest of the backlog for the next tick
C32_Witness ==
  /\ apc = "callback"
  /\ window_total_pkts_ > 0
  /\ emitted.total_pkts = MAX_DRAIN + DrainExtra + window_total_pkts_
  /\ drained_all[PktArp] > 0 /\ drained_all[PktUndecoded] > 0

====
